---- MODULE Spec2Model ----
(***************************************************************************)
(* EasySearch (src/main.py): a search aggregator.  A SearchWorker thread   *)
(* visits the configured engines one after the other, normalizes every    *)
(* raw item of an engine's JSON response and emits the engine's batch; the *)
(* window merges each batch into search_results (dedup on the canonical    *)
(* URL, then a re-sort of the whole list).                                 *)
(*                                                                         *)
(* Python strings are TLA+ strings (sequences of characters); a character  *)
(* is a string of length one.  Weights are kept in tenths (1.5 is 15), so  *)
(* the sentinel -999 is -9990.  Time is counted in seconds since the       *)
(* epoch.                                                                  *)
(*                                                                         *)
(* Spec is the program as a whole.  SpecWeight, SpecUrl and SpecCache      *)
(* examine calculate_weight, canonicalize_url and the icon cache on their  *)
(* own; SpecRace has two threads inside add_icon at once.  SpecLive is     *)
(* Spec with the threads running and the event loop delivering, SpecEdit   *)
(* the program with the list tables of the settings window edited,         *)
(* SpecTable the same with the engine table edited, SpecPage the program   *)
(* with engines that answer more than a page of results, SpecExtract one   *)
(* loop iteration of the worker on its own, SpecRequest the request url    *)
(* the worker builds, and SpecTies the icon cache under a clock that may   *)
(* read the same twice.                                                    *)
(***************************************************************************)
EXTENDS Integers, Sequences, FiniteSets, TLC

(***************************************************************************)
(* Python str primitives                                                   *)
(***************************************************************************)

\* the printable ASCII characters in code point order, from 32 (space); the
\* backquote (96) cannot be written in a TLA+ string, a tab holds its place
Ascii == " !\"#$%&'()*+,-./0123456789:;<=>?@ABCDEFGHIJKLMNOPQRSTUVWXYZ[\\]^_\tabcdefghijklmnopqrstuvwxyz{|}~"

Char(s, i) == SubSeq(s, i, i)

Min(a, b) == IF a < b THEN a ELSE b

\* s[i-1:] for a 1-based position i >= 1
From(s, i) == IF i > Len(s) THEN "" ELSE SubSeq(s, i, Len(s))

\* s[:i], clamped to the length as a Python slice is
Upto(s, i) == SubSeq(s, 1, Min(i, Len(s)))

RECURSIVE IndexFrom(_, _, _)
\* str.find(c, i-1) + 1: the first position >= i of the character c, 0 if none
IndexFrom(s, c, i) ==
    IF i > Len(s) THEN 0
    ELSE IF Char(s, i) = c THEN i
    ELSE IndexFrom(s, c, i + 1)

Find(s, c) == IndexFrom(s, c, 1)

RECURSIVE RFind(_, _, _)
\* str.rfind(c) + 1, searching down from position i
RFind(s, c, i) ==
    IF i < 1 THEN 0
    ELSE IF Char(s, i) = c THEN i
    ELSE RFind(s, c, i - 1)

\* the code point of every character of Ascii
CodePoints == [c \in {Char(Ascii, i) : i \in 1..Len(Ascii)} |-> 31 + Find(Ascii, c)]

Ord(c) == CodePoints[c]

\* code points outside printable ASCII are not among the modelled inputs
Chr(n) == IF n \in 32..126 THEN Char(Ascii, n - 31) ELSE "?"

IsUpper(c) == Ord(c) \in 65..90

IsAlpha(c) == Ord(c) \in 65..90 \/ Ord(c) \in 97..122

IsDigit(c) == Ord(c) \in 48..57

LowerChar(c) == IF IsUpper(c) THEN Chr(Ord(c) + 32) ELSE c

RECURSIVE Lower(_)
Lower(s) == IF s = "" THEN "" ELSE LowerChar(Char(s, 1)) \o Lower(Tail(s))

StartsWith(s, p) == Len(s) >= Len(p) /\ Upto(s, Len(p)) = p

EndsWith(s, p) == Len(s) >= Len(p) /\ From(s, Len(s) - Len(p) + 1) = p

RECURSIVE Contains(_, _)
\* p in s
Contains(s, p) ==
    IF Len(s) < Len(p) THEN FALSE
    ELSE StartsWith(s, p) \/ Contains(Tail(s), p)

RECURSIVE RStrip(_, _)
\* str.rstrip(c): drops every trailing c
RStrip(s, c) ==
    IF s # "" /\ Char(s, Len(s)) = c THEN RStrip(Upto(s, Len(s) - 1), c) ELSE s

RECURSIVE LStrip(_, _)
LStrip(s, c) == IF s # "" /\ Char(s, 1) = c THEN LStrip(Tail(s), c) ELSE s

RECURSIVE Split(_, _)
\* str.split(c): always at least one piece
Split(s, c) ==
    LET i == Find(s, c)
    IN  IF i = 0 THEN <<s>>
        ELSE <<Upto(s, i - 1)>> \o Split(From(s, i + 1), c)

\* str.split(c, 1)
Split1(s, c) ==
    LET i == Find(s, c)
    IN  IF i = 0 THEN <<s>> ELSE <<Upto(s, i - 1), From(s, i + 1)>>

RECURSIVE ReplaceChar(_, _, _)
ReplaceChar(s, c, d) ==
    IF s = "" THEN ""
    ELSE (IF Char(s, 1) = c THEN d ELSE Char(s, 1)) \o ReplaceChar(Tail(s), c, d)

RECURSIVE Join(_, _)
\* sep.join(parts)
Join(parts, sep) ==
    IF Len(parts) = 0 THEN ""
    ELSE IF Len(parts) = 1 THEN parts[1]
    ELSE parts[1] \o sep \o Join(Tail(parts), sep)

RECURSIVE StrLess(_, _)
\* a < b on Python strings: lexicographic on code points
StrLess(a, b) ==
    IF b = "" THEN FALSE
    ELSE IF a = "" THEN TRUE
    ELSE IF Char(a, 1) = Char(b, 1) THEN StrLess(Tail(a), Tail(b))
    ELSE Ord(Char(a, 1)) < Ord(Char(b, 1))

(***************************************************************************)
(* urllib.parse, as called by canonicalize_url                             *)
(***************************************************************************)

HexDigits == "0123456789ABCDEF"

IsHex(c) == Find(HexDigits, c) > 0 \/ Find("abcdef", c) > 0

HexVal(c) ==
    IF Find(HexDigits, c) > 0 THEN Find(HexDigits, c) - 1 ELSE Find("abcdef", c) + 9

RECURSIVE unquote(_)
\* every %XX becomes the character with that code, anything else is kept
unquote(s) ==
    IF s = "" THEN ""
    ELSE IF Char(s, 1) = "%" /\ Len(s) >= 3 /\ IsHex(Char(s, 2)) /\ IsHex(Char(s, 3))
         THEN Chr(16 * HexVal(Char(s, 2)) + HexVal(Char(s, 3))) \o unquote(From(s, 4))
         ELSE Char(s, 1) \o unquote(Tail(s))

QuoteChar(c) ==
    IF IsAlpha(c) \/ IsDigit(c) \/ Find("_.-~", c) > 0 THEN c
    ELSE IF c = " " THEN "+"
    ELSE "%" \o Char(HexDigits, (Ord(c) \div 16) + 1) \o Char(HexDigits, (Ord(c) % 16) + 1)

RECURSIVE quote_plus(_)
quote_plus(s) == IF s = "" THEN "" ELSE QuoteChar(Char(s, 1)) \o quote_plus(Tail(s))

SchemeChars == "abcdefghijklmnopqrstuvwxyzABCDEFGHIJKLMNOPQRSTUVWXYZ0123456789+-."

RECURSIVE AllIn(_, _)
AllIn(s, chars) == s = "" \/ (Find(chars, Char(s, 1)) > 0 /\ AllIn(Tail(s), chars))

uses_netloc == {"", "ftp", "http", "gopher", "nntp", "telnet", "imap", "wais",
                "file", "mms", "https", "shttp", "snews", "prospero", "rtsp",
                "rtspu", "rsync", "svn", "svn+ssh", "sftp", "nfs", "git",
                "git+ssh", "ws", "wss"}

uses_params == {"", "ftp", "hdl", "prospero", "http", "imap", "https", "shttp",
                "rtsp", "rtspu", "sip", "sips", "mms", "sftp", "tel"}

\* _splitnetloc(url, 2): the netloc runs up to the first of "/", "?", "#"
SplitNetloc(url) ==
    LET pos(c) == LET i == IndexFrom(url, c, 3) IN IF i = 0 THEN Len(url) + 1 ELSE i
        delim  == Min(pos("/"), Min(pos("?"), pos("#")))
    IN  <<SubSeq(url, 3, delim - 1), From(url, delim)>>

\* _splitparams(url): <<path, params>>
SplitParams(url) ==
    LET i == IF Find(url, "/") > 0
             THEN IndexFrom(url, ";", RFind(url, "/", Len(url)))
             ELSE Find(url, ";")
    IN  IF i = 0 THEN <<url, "">> ELSE <<Upto(url, i - 1), From(url, i + 1)>>

\* urlparse(url): ok is FALSE where urlsplit raises ValueError (an unmatched
\* IPv6 bracket in the netloc)
urlparse(url0) ==
    LET url1   == LStrip(url0, " ")
        i      == Find(url1, ":")
        hasSch == i > 1 /\ IsAlpha(Char(url1, 1)) /\ AllIn(Upto(url1, i - 1), SchemeChars)
        scheme == IF hasSch THEN Lower(Upto(url1, i - 1)) ELSE ""
        url2   == IF hasSch THEN From(url1, i + 1) ELSE url1
        hasNl  == Upto(url2, 2) = "//"
        nl     == IF hasNl THEN SplitNetloc(url2) ELSE <<"", url2>>
        netloc == nl[1]
        url3   == nl[2]
        fr     == Split1(url3, "#")
        url4   == fr[1]
        qu     == Split1(url4, "?")
        url5   == qu[1]
        pp     == IF scheme \in uses_params /\ Find(url5, ";") > 0
                  THEN SplitParams(url5) ELSE <<url5, "">>
    IN  [ok       |-> ~ ( (Find(netloc, "[") > 0) # (Find(netloc, "]") > 0) ),
         scheme   |-> scheme,
         netloc   |-> netloc,
         path     |-> pp[1],
         params   |-> pp[2],
         query    |-> IF Len(qu) = 2 THEN qu[2] ELSE "",
         fragment |-> IF Len(fr) = 2 THEN fr[2] ELSE ""]

\* urlunparse((scheme, netloc, path, '', query, ''))
urlunparse(scheme, netloc, path, query) ==
    LET u1 == IF netloc # "" \/ (scheme # "" /\ scheme \in uses_netloc /\ Upto(path, 2) # "//")
              THEN "//" \o netloc \o
                   (IF path # "" /\ Char(path, 1) # "/" THEN "/" \o path ELSE path)
              ELSE path
        u2 == IF scheme # "" THEN scheme \o ":" \o u1 ELSE u1
    IN  IF query # "" THEN u2 \o "?" \o query ELSE u2

RECURSIVE ParsePairs(_)
\* the loop of parse_qsl over qs.split('&'), keep_blank_values=True
ParsePairs(fields) ==
    IF Len(fields) = 0 THEN <<>>
    ELSE LET nv == Split1(fields[1], "=")
             k  == unquote(ReplaceChar(nv[1], "+", " "))
             v  == IF Len(nv) = 2 THEN unquote(ReplaceChar(nv[2], "+", " ")) ELSE ""
         IN  (IF fields[1] = "" THEN <<>> ELSE << <<k, v>> >>) \o ParsePairs(Tail(fields))

parse_qsl(qs) == IF qs = "" THEN <<>> ELSE ParsePairs(Split(qs, "&"))

\* p < q on (key, value) tuples
PairLess(p, q) == StrLess(p[1], q[1]) \/ (p[1] = q[1] /\ StrLess(p[2], q[2]))

RECURSIVE InsertPair(_, _)
InsertPair(sorted, p) ==
    IF Len(sorted) = 0 THEN <<p>>
    ELSE IF PairLess(p, sorted[1]) THEN <<p>> \o sorted
    ELSE <<sorted[1]>> \o InsertPair(Tail(sorted), p)

\* SortPairs that leaves the pairs in the order of the query: a variant the
\* canonical form of the example must tell from the code
Unsorted(ps) == ps

RECURSIVE SortPairs(_)
\* list.sort() of (key, value) tuples: ascending by key, then by value
SortPairs(ps) ==
    IF Len(ps) = 0 THEN <<>>
    ELSE InsertPair(SortPairs(SubSeq(ps, 1, Len(ps) - 1)), ps[Len(ps)])

RECURSIVE EncodePairs(_)
EncodePairs(ps) ==
    IF Len(ps) = 0 THEN <<>>
    ELSE <<quote_plus(ps[1][1]) \o "=" \o quote_plus(ps[1][2])>> \o EncodePairs(Tail(ps))

\* urlencode(pairs, doseq=True)
urlencode(ps) == Join(EncodePairs(ps), "&")

IsTracking(k) == StartsWith(k, "utm_") \/ k \in {"fbclid", "gclid"}

\* the filter that keeps the tracking pairs
KeepTracking(ps) == ps

RECURSIVE FilterTracking(_)
FilterTracking(ps) ==
    IF Len(ps) = 0 THEN <<>>
    ELSE (IF IsTracking(ps[1][1]) THEN <<>> ELSE <<ps[1]>>) \o FilterTracking(Tail(ps))

(***************************************************************************)
(* canonicalize_url                                                        *)
(***************************************************************************)

\* Canonical with the root path stripped like any other trailing slash: a
\* variant the end-to-end example must tell from the code
CanonicalRootless(url, parsed) ==
    LET scheme  == IF parsed.scheme # "" THEN parsed.scheme ELSE "http"
        netloc0 == Lower(parsed.netloc)
        netloc1 == IF EndsWith(netloc0, ":80") /\ scheme = "http"
                   THEN Upto(netloc0, Len(netloc0) - 3) ELSE netloc0
        netloc  == IF EndsWith(netloc1, ":443") /\ scheme = "https"
                   THEN Upto(netloc1, Len(netloc1) - 4) ELSE netloc1
        query   == urlencode(SortPairs(FilterTracking(parse_qsl(parsed.query))))
    IN  IF ~parsed.ok THEN url
        ELSE urlunparse(scheme, netloc, RStrip(unquote(parsed.path), "/"), query)

\* Canonical taking one trailing slash off the path, not all of them
CanonicalOneSlash(url, parsed) ==
    LET scheme  == IF parsed.scheme # "" THEN parsed.scheme ELSE "http"
        netloc0 == Lower(parsed.netloc)
        netloc1 == IF EndsWith(netloc0, ":80") /\ scheme = "http"
                   THEN Upto(netloc0, Len(netloc0) - 3) ELSE netloc0
        netloc  == IF EndsWith(netloc1, ":443") /\ scheme = "https"
                   THEN Upto(netloc1, Len(netloc1) - 4) ELSE netloc1
        path0   == unquote(parsed.path)
        path    == IF path0 # "/" /\ EndsWith(path0, "/")
                   THEN Upto(path0, Len(path0) - 1) ELSE path0
        query   == urlencode(SortPairs(FilterTracking(parse_qsl(parsed.query))))
    IN  IF ~parsed.ok THEN url
        ELSE urlunparse(scheme, netloc, path, query)

\* the body of canonicalize_url from the parse on: parsed is urlparse(url)
Canonical(url, parsed) ==
    LET scheme  == IF parsed.scheme # "" THEN parsed.scheme ELSE "http"
        netloc0 == Lower(parsed.netloc)
        netloc1 == IF EndsWith(netloc0, ":80") /\ scheme = "http"
                   THEN Upto(netloc0, Len(netloc0) - 3) ELSE netloc0
        netloc  == IF EndsWith(netloc1, ":443") /\ scheme = "https"
                   THEN Upto(netloc1, Len(netloc1) - 4) ELSE netloc1
        path0   == unquote(parsed.path)
        path    == IF path0 # "/" /\ EndsWith(path0, "/") THEN RStrip(path0, "/") ELSE path0
        query   == urlencode(SortPairs(FilterTracking(parse_qsl(parsed.query))))
    IN  IF ~parsed.ok THEN url
        ELSE urlunparse(scheme, netloc, path, query)

canonicalize_url(url) == IF url = "" THEN "" ELSE Canonical(url, urlparse(url))

(***************************************************************************)
(* Values                                                                  *)
(*                                                                         *)
(* A JSON value is a record [t, v]: t is its type and v its content (a     *)
(* string, a natural number, a sequence of values, or a function from      *)
(* field names to values).  An optional Python value is <<>> for None and  *)
(* <<x>> for x.                                                            *)
(***************************************************************************)

JNull == [t |-> "null", v |-> <<>>]

JStr(s) == [t |-> "str", v |-> s]

JNum(n) == [t |-> "num", v |-> n]

JList(items) == [t |-> "list", v |-> items]

JDict(fields) == [t |-> "dict", v |-> fields]

None == <<>>

Some(x) == <<x>>

\* bool(x) of a JSON value
Truthy(x) ==
    CASE x.t = "null" -> FALSE
      [] x.t = "str"  -> x.v # ""
      [] x.t = "num"  -> x.v # 0
      [] x.t = "list" -> Len(x.v) > 0
      [] OTHER        -> DOMAIN x.v # {}

\* a or b
PyOr(a, b) == IF Truthy(a) THEN a ELSE b

\* a JSON list or object cannot be a dict key: dict.get raises TypeError
Unhashable(k) == k.t \in {"list", "dict"}

\* d.get(k) for a hashable k: the fields of a JSON object are named by strings
DictGet(d, k) == IF k.t = "str" /\ k.v \in DOMAIN d.v THEN d.v[k.v] ELSE JNull

RECURSIVE IntToStr(_)
IntToStr(n) ==
    IF n < 10 THEN Char("0123456789", n + 1)
    ELSE IntToStr(n \div 10) \o Char("0123456789", (n % 10) + 1)

RECURSIVE StrToInt(_, _)
\* int(s) of a digit-only s, acc the value of the digits read so far
StrToInt(s, acc) ==
    IF s = "" THEN acc
    ELSE StrToInt(Tail(s), 10 * acc + (Ord(Char(s, 1)) - 48))

\* str(x) of a scalar JSON value (reprs of lists and objects are not among
\* the modelled inputs)
PyStr(x) ==
    CASE x.t = "str" -> x.v
      [] x.t = "num" -> IntToStr(x.v)
      [] OTHER       -> "None"

(***************************************************************************)
(* normalize_publish_date, calculate_weight                                *)
(***************************************************************************)

SecondsPerDay == 86400

\* the instant of the runs, seconds since the epoch (day 40, 01:00)
Now == 40 * SecondsPerDay + 3600

\* A datetime is its epoch second.  The modelled inputs are None, a number
\* of seconds (below 1e12, so never taken for milliseconds), a digit-only
\* string, or a string no date format matches.
normalize_publish_date(value) ==
    CASE value.t = "null" -> None
      [] value.t = "num"  -> Some(value.v)
      [] value.t = "str"  ->
            LET s == LStrip(RStrip(value.v, " "), " ")
            IN  IF s = "" THEN None
                ELSE IF AllIn(s, "0123456789") THEN Some(StrToInt(s, 0))
                ELSE None
      [] OTHER            -> None

\* urlparse(url).netloc.lower(), "" where urlparse raises
NetlocOf(parsed) == IF parsed.ok THEN Lower(parsed.netloc) ELSE ""

Domain(url) == NetlocOf(urlparse(url))

\* any(entry in domain for entry in list)
AnyIn(list, domain) == \E i \in 1..Len(list) : Contains(domain, list[i])

SENTINEL == -9990

\* Recency with the penalty from the 31st day on: a variant the table of
\* the recency term must tell from the code
RecencyLate(days_ago) ==
    CASE days_ago = 0   -> 5
      [] days_ago = 1   -> 4
      [] days_ago = 2   -> 3
      [] days_ago = 3   -> 2
      [] days_ago = 4   -> 1
      [] days_ago > 30  -> -5
      [] OTHER          -> 0

\* the recency term for a publish date days_ago days old, in tenths
Recency(days_ago) ==
    CASE days_ago = 0   -> 5
      [] days_ago = 1   -> 4
      [] days_ago = 2   -> 3
      [] days_ago = 3   -> 2
      [] days_ago = 4   -> 1
      [] days_ago >= 30 -> -5
      [] OTHER          -> 0

\* WeightOf with the whitelist looked at first, a whitelisted host never
\* taken for blacklisted: a variant the sentinel must tell from the code
WeightOfWhitelistFirst(domain, publish_date, blacklist, whitelist, authoritative_sites, now) ==
    LET w1 == IF AnyIn(whitelist, domain) THEN 15 ELSE 0
        w2 == IF AnyIn(authoritative_sites, domain) THEN 10 ELSE 0
        w3 == IF publish_date = None THEN 0
              ELSE Recency((now - publish_date[1]) \div SecondsPerDay)
    IN  IF w1 = 0 /\ AnyIn(blacklist, domain) THEN SENTINEL ELSE w1 + w2 + w3

\* WeightOf with the larger of the two list terms in place of their sum: a
\* variant the sum of the terms must tell from the code
WeightOfLargerTerm(domain, publish_date, blacklist, whitelist, authoritative_sites, now) ==
    LET w1 == IF AnyIn(whitelist, domain) THEN 15 ELSE 0
        w2 == IF AnyIn(authoritative_sites, domain) THEN 10 ELSE 0
        w3 == IF publish_date = None THEN 0
              ELSE Recency((now - publish_date[1]) \div SecondsPerDay)
    IN  IF AnyIn(blacklist, domain) THEN SENTINEL
        ELSE (IF w1 > w2 THEN w1 ELSE w2) + w3

\* the weight of a result on the host domain, in tenths; publish_date is None
\* or a datetime
WeightOf(domain, publish_date, blacklist, whitelist, authoritative_sites, now) ==
    LET w1 == IF AnyIn(whitelist, domain) THEN 15 ELSE 0
        w2 == IF AnyIn(authoritative_sites, domain) THEN 10 ELSE 0
        w3 == IF publish_date = None THEN 0
              ELSE Recency((now - publish_date[1]) \div SecondsPerDay)
    IN  IF AnyIn(blacklist, domain) THEN SENTINEL ELSE w1 + w2 + w3

calculate_weight(result, blacklist, whitelist, authoritative_sites, now) ==
    WeightOf(Domain(result.url), result.publish_date,
             blacklist, whitelist, authoritative_sites, now)

(***************************************************************************)
(* ICONCacheManager: the dict in insertion order, one record per key       *)
(***************************************************************************)

max_size == 500

CacheIndex(cache, url) ==
    IF \E i \in 1..Len(cache) : cache[i].key = url
    THEN CHOOSE i \in 1..Len(cache) : cache[i].key = url
    ELSE 0

\* Oldest as the first entry in dict order, whatever the timestamps: a
\* variant the eviction must tell from the code
FirstInserted(cache) == 1

\* the first entry, in dict order, with the least timestamp
\* Oldest with the last of the entries of the least timestamp
LastOfOldest(cache) ==
    CHOOSE i \in 1..Len(cache) :
        /\ \A j \in 1..Len(cache) : cache[i].timestamp <= cache[j].timestamp
        /\ \A j \in (i + 1)..Len(cache) : cache[j].timestamp > cache[i].timestamp

Oldest(cache) ==
    CHOOSE i \in 1..Len(cache) :
        /\ \A j \in 1..Len(cache) : cache[i].timestamp <= cache[j].timestamp
        /\ \A j \in 1..(i - 1) : cache[j].timestamp > cache[i].timestamp

RemoveAt(seq, i) == SubSeq(seq, 1, i - 1) \o SubSeq(seq, i + 1, Len(seq))

\* self.cache[url] = {...}: a new key goes to the end of the dict, a cached
\* key keeps its place
Stored(cache, url, icon_data, time) ==
    IF CacheIndex(cache, url) = 0
    THEN Append(cache, [key |-> url, icon |-> icon_data, timestamp |-> time])
    ELSE [cache EXCEPT ![CacheIndex(cache, url)] =
                           [key |-> url, icon |-> icon_data, timestamp |-> time]]

\* the rest of add_icon, c1 the cache with the entry stored
Trimmed(c1) == IF Len(c1) > max_size THEN RemoveAt(c1, Oldest(c1)) ELSE c1

add_icon(cache, url, icon_data, time) == Trimmed(Stored(cache, url, icon_data, time))

get_icon(cache, url) ==
    LET i == CacheIndex(cache, url) IN IF i = 0 THEN None ELSE Some(cache[i].icon)

\* Looked with the timestamp of the entry read set past every other: a
\* variant the reads must tell from the code
LookedRefreshing(cache, url) ==
    IF CacheIndex(cache, url) = 0 THEN cache
    ELSE [cache EXCEPT ![CacheIndex(cache, url)].timestamp = cache[Len(cache)].timestamp + Len(cache)]

\* the cache after get_icon(url): the entry is looked up, nothing is stored
Looked(cache, url) == cache

(***************************************************************************)
(* SearchWorker.run: one engine                                            *)
(***************************************************************************)

RECURSIVE Replace(_, _, _)
\* s.replace(old, new) for a non-empty old: every occurrence, left to right
Replace(s, old, new) ==
    IF Len(s) < Len(old) THEN s
    ELSE IF StartsWith(s, old) THEN new \o Replace(From(s, Len(old) + 1), old, new)
    ELSE Char(s, 1) \o Replace(Tail(s), old, new)

query_placeholders == <<"{query}", "{q}", "{keyword}", "{search}">>

apikey_placeholders == <<"{apikey}", "{api_key}", "{key}">>

RECURSIVE ReplacedFirst(_, _, _, _)
\* the placeholder loop leaving the loop at the first placeholder it finds
ReplacedFirst(req_url, placeholders, value, replaced) ==
    IF Len(placeholders) = 0 THEN [req_url |-> req_url, replaced |-> replaced]
    ELSE IF Contains(req_url, placeholders[1])
    THEN [req_url |-> Replace(req_url, placeholders[1], value), replaced |-> TRUE]
    ELSE ReplacedFirst(req_url, Tail(placeholders), value, replaced)

RECURSIVE Replaced(_, _, _, _)
\* for ph in placeholders: if ph in req_url: req_url = req_url.replace(ph, value);
\* replaced tells whether any was found
Replaced(req_url, placeholders, value, replaced) ==
    IF Len(placeholders) = 0 THEN [req_url |-> req_url, replaced |-> replaced]
    ELSE IF Contains(req_url, placeholders[1])
    THEN Replaced(Replace(req_url, placeholders[1], value), Tail(placeholders), value, TRUE)
    ELSE Replaced(req_url, Tail(placeholders), value, replaced)

\* the url has a query parameter that looks like the query: any(k in
\* existing_q for k in ('q=', 'keyword=', 'query=', 'search='))
HasQueryParameter(req_url) ==
    \E k \in {"q=", "keyword=", "query=", "search="} :
        Contains(Lower(urlparse(req_url).query), k)

\* the request url once the placeholders are replaced: q=<query> is appended
\* where no query placeholder was found and the url has no such parameter
WithQuery(r, query) ==
    IF ~r.replaced /\ ~HasQueryParameter(r.req_url)
    THEN r.req_url \o (IF Contains(r.req_url, "?") THEN "&" ELSE "?") \o "q=" \o quote_plus(query)
    ELSE r.req_url

\* the apikey loop after the query loop left r
WithApiKey(r, api_key) ==
    [req_url  |-> Replaced(r.req_url, apikey_placeholders, quote_plus(api_key), FALSE).req_url,
     replaced |-> r.replaced]

\* req_url as run builds it from the engine's api_url
request_url(api_url, query, api_key) ==
    WithQuery(WithApiKey(Replaced(api_url, query_placeholders, quote_plus(query), FALSE), api_key),
              query)

\* _get_by_path stepping into the first element of a list it meets
RECURSIVE WalkPathIntoLists(_, _)
WalkPathIntoLists(cur, parts) ==
    IF Len(parts) = 0 THEN cur
    ELSE IF cur.t = "dict" THEN WalkPathIntoLists(DictGet(cur, JStr(parts[1])), Tail(parts))
    ELSE IF cur.t = "list" /\ Len(cur.v) > 0 THEN WalkPathIntoLists(cur.v[1], parts)
    ELSE JNull

\* _get_by_path(obj, path), None as JNull
RECURSIVE WalkPath(_, _)
WalkPath(cur, parts) ==
    IF Len(parts) = 0 THEN cur
    ELSE IF cur.t = "dict" THEN WalkPath(DictGet(cur, JStr(parts[1])), Tail(parts))
    ELSE JNull

NonEmpty(parts) == SelectSeq(parts, LAMBDA p : p # "")

_get_by_path(obj, path) ==
    IF path = "" \/ path = "." THEN obj
    ELSE WalkPath(obj, NonEmpty(Split(IF Char(path, 1) = "." THEN Tail(path) ELSE path, ".")))

\* ExtractItems looking for the items field before the results field
ExtractItemsFirst(j, results_path) ==
    IF j.t = "null" THEN <<>>
    ELSE IF results_path # ""
    THEN LET val == _get_by_path(j, results_path)
         IN  IF val.t = "list" THEN val.v
             ELSE IF val.t = "dict" THEN <<val>>
             ELSE <<>>
    ELSE IF j.t = "dict"
    THEN IF "items" \in DOMAIN j.v /\ j.v["items"].t = "list" THEN j.v["items"].v
         ELSE IF "results" \in DOMAIN j.v /\ j.v["results"].t = "list" THEN j.v["results"].v
         ELSE <<j>>
    ELSE IF j.t = "list" THEN j.v
    ELSE <<>>

\* the raw items of a response body j (JNull where the body is not JSON)
ExtractItems(j, results_path) ==
    IF j.t = "null" THEN <<>>
    ELSE IF results_path # ""
    THEN LET val == _get_by_path(j, results_path)
         IN  IF val.t = "list" THEN val.v
             ELSE IF val.t = "dict" THEN <<val>>
             ELSE <<>>
    ELSE IF j.t = "dict"
    THEN IF "results" \in DOMAIN j.v /\ j.v["results"].t = "list" THEN j.v["results"].v
         ELSE IF "items" \in DOMAIN j.v /\ j.v["items"].t = "list" THEN j.v["items"].v
         ELSE <<j>>
    ELSE IF j.t = "list" THEN j.v
    ELSE <<>>

\* The fields read from one raw item.  raises: it.get was given an
\* unhashable key, a TypeError inside the per-item try.
ItemFields(it, cfg) ==
    IF it.t = "dict"
    THEN [raises  |-> \/ Unhashable(cfg.json_title) \/ Unhashable(cfg.json_url)
                      \/ Unhashable(cfg.json_snippet) \/ Unhashable(cfg.json_publish_date),
          title   |-> PyStr(PyOr(PyOr(DictGet(it, cfg.json_title), DictGet(it, JStr("title"))), JStr(""))),
          url     |-> PyStr(PyOr(PyOr(DictGet(it, cfg.json_url), DictGet(it, JStr("url"))), JStr(""))),
          snippet |-> PyStr(PyOr(PyOr(DictGet(it, cfg.json_snippet), DictGet(it, JStr("snippet"))), JStr(""))),
          publish_date |-> normalize_publish_date(
                               PyOr(DictGet(it, cfg.json_publish_date), DictGet(it, JStr("publish_date"))))]
    ELSE [raises |-> FALSE, title |-> PyStr(it), url |-> "", snippet |-> PyStr(it),
          publish_date |-> None]

\* The web the favicon requests go to: the status of requests.get(icon_url),
\* "error" where the request raises.
FaviconReply(icon_url) ==
    IF icon_url \in {"http://a.com/favicon.ico", "https://github.com/favicon.ico"} THEN "200"
    ELSE IF icon_url = "http://b.com/favicon.ico" THEN "404"
    ELSE "error"

\* the whitelist mark on parsed, the parse of a url: False where it raised
WhitelistedAt(parsed, whitelist) == parsed.ok /\ AnyIn(whitelist, Lower(parsed.netloc))

\* result['is_whitelist'] for url: the domain is '' for an empty url
is_whitelist(url, whitelist) ==
    IF url = "" THEN AnyIn(whitelist, "") ELSE WhitelistedAt(urlparse(url), whitelist)

\* The loop body from the icon on, for an item that has an icon (cached, or
\* fetched and stored in cache) or none: the result appended
Appended(name, f, norm_url, icon, cache, blacklist, whitelist, authoritative_sites, now) ==
    [kind  |-> "ok",
     cache |-> cache,
     res   |-> <<[title        |-> IF f.title # "" THEN f.title ELSE name \o " result",
                  url          |-> f.url,
                  norm_url     |-> norm_url,
                  snippet      |-> f.snippet,
                  source       |-> name,
                  publish_date |-> f.publish_date,
                  icon         |-> icon,
                  weight       |-> calculate_weight(f, blacklist, whitelist,
                                                    authoritative_sites, now),
                  is_whitelist |-> is_whitelist(f.url, whitelist)]>>]

\* the loop body where the icon is not cached: pieces is norm_url.split("/"),
\* and pieces[2] raises IndexError outside the per-item try
Uncached(name, f, norm_url, pieces, cache, blacklist, whitelist, authoritative_sites, now) ==
    IF Len(pieces) < 3 THEN [kind |-> "crash", cache |-> cache, res |-> <<>>]
    ELSE IF FaviconReply(pieces[1] \o "//" \o pieces[3] \o "/favicon.ico") = "200"
    THEN Appended(name, f, norm_url,
                  Some(pieces[1] \o "//" \o pieces[3] \o "/favicon.ico"),
                  add_icon(cache, f.url, pieces[1] \o "//" \o pieces[3] \o "/favicon.ico", now),
                  blacklist, whitelist, authoritative_sites, now)
    ELSE Appended(name, f, norm_url, None, cache,
                  blacklist, whitelist, authoritative_sites, now)

\* the loop body from norm_url on
Canonicalized(name, f, norm_url, cache, blacklist, whitelist, authoritative_sites, now) ==
    IF get_icon(cache, f.url) # None
    THEN Appended(name, f, norm_url, get_icon(cache, f.url), cache,
                  blacklist, whitelist, authoritative_sites, now)
    ELSE Uncached(name, f, norm_url, Split(norm_url, "/"), cache,
                  blacklist, whitelist, authoritative_sites, now)

\* the loop body from the fields f read from the item on
Extracted(name, f, cache, blacklist, whitelist, authoritative_sites, now) ==
    IF f.raises THEN [kind |-> "item_error", cache |-> cache, res |-> <<>>]
    ELSE Canonicalized(name, f, canonicalize_url(f.url), cache,
                       blacklist, whitelist, authoritative_sites, now)

\* One raw item through the loop body.  kind is "ok" (res is appended to the
\* engine's results), "item_error" (an exception inside the per-item try: a
\* soft error and the item is skipped) or "crash" (an exception outside it,
\* which leaves the loop for the engine's outer handler).
NormalizeItem(name, cfg, it, cache, blacklist, whitelist, authoritative_sites, now) ==
    Extracted(name, ItemFields(it, cfg), cache, blacklist, whitelist, authoritative_sites, now)

RECURSIVE NormalizeItems(_, _, _, _, _, _, _, _, _, _)
\* the loop after one item, with outcome o, of the items left
Collected(name, cfg, items, o, results, errors, blacklist, whitelist, authoritative_sites, now) ==
    IF o.kind = "crash"
    THEN [results |-> results, errors |-> errors, crashed |-> TRUE, cache |-> o.cache]
    ELSE NormalizeItems(name, cfg, items, o.cache, results \o o.res,
                        IF o.kind = "item_error" THEN errors + 1 ELSE errors,
                        blacklist, whitelist, authoritative_sites, now)

\* the for loop over the items: results and errors are what has been
\* collected so far
NormalizeItems(name, cfg, items, cache, results, errors, blacklist, whitelist, authoritative_sites, now) ==
    IF Len(items) = 0
    THEN [results |-> results, errors |-> errors, crashed |-> FALSE, cache |-> cache]
    ELSE Collected(name, cfg, Tail(items),
                   NormalizeItem(name, cfg, items[1], cache,
                                 blacklist, whitelist, authoritative_sites, now),
                   results, errors, blacklist, whitelist, authoritative_sites, now)

\* A signal on its way to the window.  what tells the error messages apart:
\* "request" (请求失败), "item" (解析结果项出错), "unknown" (未知错误).
Signal(kind, w, engine, what, results) ==
    [kind |-> kind, worker |-> w, engine |-> engine, what |-> what, results |-> results]

RECURSIVE Repeat(_, _)
Repeat(x, n) == IF n = 0 THEN <<>> ELSE <<x>> \o Repeat(x, n - 1)

\* an iteration that reports an error where it has no result to emit
EmittedOrReported(w, name, items, n) ==
    [signals |-> Repeat(Signal("error", w, name, "item", <<>>), n.errors) \o
                 (IF n.crashed \/ Len(n.results) = 0
                  THEN <<Signal("error", w, name, "unknown", <<>>)>>
                  ELSE <<Signal("results", w, name, "", n.results)>>),
     cache   |-> n.cache,
     items   |-> items]

\* the signals of an iteration whose item loop ended as n: the soft errors,
\* then the outer handler's error or the batch, if not empty
Emitted(w, name, items, n) ==
    [signals |-> Repeat(Signal("error", w, name, "item", <<>>), n.errors) \o
                 (IF n.crashed THEN <<Signal("error", w, name, "unknown", <<>>)>>
                  ELSE IF Len(n.results) > 0
                  THEN <<Signal("results", w, name, "", n.results)>>
                  ELSE <<>>),
     cache   |-> n.cache,
     items   |-> items]

\* the iteration from the raw items on
Answered(w, name, cfg, items, cache, blacklist, whitelist, authoritative_sites, now) ==
    Emitted(w, name, items,
            NormalizeItems(name, cfg, items, cache, <<>>, 0,
                           blacklist, whitelist, authoritative_sites, now))

\* RunEngine with a failed request passed over in silence: a variant the
\* error reporting must tell from the code
RunEngineSilent(w, name, cfg, resp, cache, blacklist, whitelist, authoritative_sites, now) ==
    IF ~resp.ok
    THEN [signals |-> <<>>, cache |-> cache, items |-> <<>>]
    ELSE Answered(w, name, cfg, ExtractItems(resp.json, cfg.results_path), cache,
                  blacklist, whitelist, authoritative_sites, now)

\* One iteration of the loop over the engines, for an enabled engine with an
\* API URL: the signals it emits, in order, and the icon cache it leaves.
\* resp is the outcome of requests.get: ok is FALSE where it raises, json is
\* the parsed body, JNull where the body is not JSON.
RunEngine(w, name, cfg, resp, cache, blacklist, whitelist, authoritative_sites, now) ==
    IF ~resp.ok
    THEN [signals |-> <<Signal("error", w, name, "request", <<>>)>>, cache |-> cache,
          items |-> <<>>]
    ELSE Answered(w, name, cfg, ExtractItems(resp.json, cfg.results_path), cache,
                  blacklist, whitelist, authoritative_sites, now)

(***************************************************************************)
(* The bounded world: the settings the program starts from, and what the   *)
(* engines answer                                                          *)
(***************************************************************************)

\* the number of searches the user starts
MaxSearches == 2

\* what the user may have typed when a search is triggered
Queries == {"", " tla "}

EngineCfg(enabled, api_url, results_path, title, url, snippet, publish_date) ==
    [enabled |-> enabled, api_url |-> api_url, api_key |-> "", results_path |-> results_path,
     json_title |-> title, json_url |-> url, json_snippet |-> snippet,
     json_publish_date |-> publish_date, json_keyheader |-> ""]

EngineA ==
    [name |-> "A",
     cfg  |-> EngineCfg(TRUE, "https://a.example/s?q={query}", "",
                        JStr("title"), JStr("url"), JStr("snippet"), JStr("publish_date"))]

EngineOff ==
    [name |-> "Off",
     cfg  |-> EngineCfg(FALSE, "https://off.example/s", "",
                        JStr("title"), JStr("url"), JStr("snippet"), JStr("publish_date"))]

EngineNoUrl ==
    [name |-> "NoUrl",
     cfg  |-> EngineCfg(TRUE, "", "", JStr(""), JStr(""), JStr(""), JStr(""))]

EngineB ==
    [name |-> "B",
     cfg  |-> EngineCfg(TRUE, "https://b.example/find", ".data.hits",
                        JStr("name"), JStr("link"), JStr(""), JStr("date"))]

\* engine B as a settings file may hold it: the publish-date key is a list
EngineBBadKey ==
    [name |-> "B",
     cfg  |-> EngineCfg(TRUE, "https://b.example/find", ".data.hits",
                        JStr("name"), JStr("link"), JStr(""), JList(<<JStr("date")>>))]

\* the engine tables a run of the program may start from, in dict order
EngineTables ==
    << <<EngineA, EngineOff, EngineNoUrl, EngineB>>,
       <<EngineA, EngineOff, EngineNoUrl, EngineBBadKey>> >>

Failure == [ok |-> FALSE, json |-> JNull]

Body(j) == [ok |-> TRUE, json |-> j]

\* a response whose body resp.json() cannot parse: j = None
NotJson == Body(JNull)

ItemX == JDict([title |-> JStr("X"), url |-> JStr("http://a.com/?utm_source=z")])

ItemG ==
    JDict([title |-> JStr("G"), url |-> JStr("https://github.com/r"),
           publish_date |-> JNum(Now - SecondsPerDay)])

\* no url
ItemN == JDict([title |-> JStr("N"), snippet |-> JStr("n")])

\* no title, whitelisted host, five days old, the date as a digit string
ItemD5 ==
    JDict([url |-> JStr("http://b.com/1"),
           publish_date |-> JStr(IntToStr(Now - 5 * SecondsPerDay))])

\* whitelisted host, six days old
ItemD6 ==
    JDict([title |-> JStr("D6"), url |-> JStr("http://b.com/2"),
           publish_date |-> JNum(Now - 6 * SecondsPerDay)])

ItemY == JDict([name |-> JStr("Y"), link |-> JStr("http://a.com")])

\* canonically the URL of ItemX
ItemZ == JDict([title |-> JStr("Z"), link |-> JStr("HTTP://A.com/?fbclid=1#f")])

\* blacklisted host
ItemC == JDict([title |-> JStr("C"), url |-> JStr("http://blog.csdn.net/p"), snippet |-> JStr("c")])

\* canonically the URL of ItemD6, no date
ItemW == JDict([name |-> JStr("W"), link |-> JStr("HTTP://B.com:80/2/#top")])

\* what engine A may answer to one request
RepliesA ==
    << Failure,
       Body(JDict([results |-> JList(<<ItemX>>)])),
       Body(JDict([results |-> JList(<<ItemG, ItemN>>)])),
       Body(JList(<<ItemD6, ItemC, ItemD5>>)) >>

\* what engine B may answer to one request
RepliesB ==
    << Body(JDict([data |-> JDict([hits |-> JList(<<>>)])])),
       Body(JDict([data |-> JDict([hits |-> JList(<<ItemY>>)])])),
       Body(JDict([data |-> JDict([hits |-> JList(<<ItemZ, ItemW>>)])])),
       NotJson >>

Replies(name) == IF name = "A" THEN RepliesA ELSE RepliesB

(***************************************************************************)
(* State                                                                   *)
(***************************************************************************)

VARIABLES
    search_engines,       \* api_manager.search_engines, in dict order
    blacklist,            \* api_manager.blacklist
    whitelist,            \* api_manager.whitelist
    authoritative_sites,  \* api_manager.authoritative_sites
    iconcache,            \* api_manager.iconcache.cache
    workers,              \* every SearchWorker created so far, in creation order
    queue,                \* the signals posted to the window's thread, not yet handled
    search_results,       \* EasySearchWindow.search_results
    current_page,         \* EasySearchWindow.current_page
    shown,                \* the results whose widgets are in results_layout
    loading,              \* the loading animation runs
    pagination,           \* the pagination bar is visible
    search_worker,        \* EasySearchWindow.search_worker: a worker, 0 for None
    registered,           \* EasySearchWindow._workers
    call,                 \* the latest call of a function examined on its own
    clock,                \* time.time() as the icon cache's callers read it
    threads               \* the threads inside add_icon, each at its position

vars == <<search_engines, blacklist, whitelist, authoritative_sites, iconcache, workers,
          queue, search_results, current_page, shown, loading, pagination, search_worker,
          registered, call, clock, threads>>

settings == <<search_engines, blacklist, whitelist, authoritative_sites>>

window == <<search_results, current_page, shown, loading, pagination, search_worker,
            registered>>

\* the state of the specifications that examine one function or the icon
\* cache on its own; the program as a whole leaves it alone
unit == <<call, clock, threads>>

NoCall == [fn |-> ""]

results_per_page == 10

\* the record of a worker's latest loop iteration: the engine, whether the
\* request failed, the raw items extracted, the signals emitted (their kinds),
\* the batch emitted, and the number of searches started by then; NoVisit
\* outside the loop
NoVisit ==
    [engine |-> "", failed |-> FALSE, items |-> <<>>, signals |-> <<>>, batch |-> <<>>,
     searches |-> 0]

\* A worker: pc is "start" (the thread is started, run has not begun), "run"
\* (inside the loop over engines, idx the next index of engines to look at) or
\* "done" (run has returned).  requested lists the engines the thread has
\* sent a request to.
NewWorker(query) ==
    [query |-> query, pc |-> "start", engines |-> <<>>, idx |-> 1,
     requested |-> <<>>, visit |-> NoVisit]

\* EasySearchWindow.__init__: no worker, no results, the first page
WindowInit ==
    /\ workers = <<>>
    /\ queue = <<>>
    /\ search_results = <<>>
    /\ current_page = 0
    /\ shown = <<>>
    /\ loading = FALSE
    /\ pagination = FALSE
    /\ search_worker = 0
    /\ registered = {}

Init ==
    /\ \E t \in 1..Len(EngineTables) : search_engines = EngineTables[t]
    /\ blacklist = <<"csdn.net">>
    /\ whitelist = <<"b.com">>
    /\ authoritative_sites = <<"github.com", "stackoverflow.com">>
    /\ iconcache = <<>>
    /\ call = NoCall
    /\ clock = 0
    /\ threads = <<>>
    /\ workers = <<>>
    /\ queue = <<>>
    /\ search_results = <<>>
    /\ current_page = 0
    /\ shown = <<>>
    /\ loading = FALSE
    /\ pagination = FALSE
    /\ search_worker = 0
    /\ registered = {}

(***************************************************************************)
(* EasySearchWindow                                                        *)
(***************************************************************************)

\* list[start:end] with 0-based start, end exclusive
Slice(list, start, end) ==
    IF start >= Len(list) THEN <<>> ELSE SubSeq(list, start + 1, Min(end, Len(list)))

\* the widgets show_results_page(page) leaves in results_layout
PageOf(list, page) == Slice(list, page * results_per_page, (page + 1) * results_per_page)

total_pages(list) == (Len(list) + results_per_page - 1) \div results_per_page

\* perform_search: an empty query returns at once; otherwise the widgets are
\* cleared and a new worker is created, registered and started
perform_search(text) ==
    /\ Len(workers) < MaxSearches
    /\ LET query == LStrip(RStrip(text, " "), " ")
       IN  IF query = ""
           THEN UNCHANGED <<workers, window>>
           ELSE /\ workers' = Append(workers, NewWorker(query))
                /\ shown' = <<>>
                /\ loading' = TRUE
                /\ pagination' = FALSE
                /\ search_worker' = Len(workers) + 1
                /\ registered' = registered \cup {Len(workers) + 1}
                /\ UNCHANGED <<search_results, current_page>>
    /\ UNCHANGED <<unit, settings, iconcache, queue>>

\* _sort_key(item): (weight, timestamp), the timestamp 0 without a date
SortKey(item) == <<item.weight, IF item.publish_date = None THEN 0 ELSE item.publish_date[1]>>

\* KeyLess for a sort without reverse=True
KeyMore(a, b) == a[1] > b[1] \/ (a[1] = b[1] /\ a[2] > b[2])

KeyLess(a, b) == a[1] < b[1] \/ (a[1] = b[1] /\ a[2] < b[2])

RECURSIVE InsertDesc(_, _)
\* item goes behind every element whose key is not less than its own
InsertDesc(sorted, item) ==
    IF Len(sorted) = 0 THEN <<item>>
    ELSE IF KeyLess(SortKey(sorted[1]), SortKey(item)) THEN <<item>> \o sorted
    ELSE <<sorted[1]>> \o InsertDesc(Tail(sorted), item)

RECURSIVE SortDesc(_)
\* list.sort(key=_sort_key, reverse=True): descending and stable
SortDesc(list) ==
    IF Len(list) = 0 THEN <<>>
    ELSE InsertDesc(SortDesc(SubSeq(list, 1, Len(list) - 1)), list[Len(list)])

\* the key a result is deduplicated on: norm_url, or the canonical form of
\* its url where norm_url is empty
DedupKey(r) == IF r.norm_url # "" THEN r.norm_url ELSE canonicalize_url(r.url)

\* ExistingUrls as a set collected before any result was in the list: a
\* variant the merge against the current list must tell from the code
StaleUrls(list) == {}

\* existing_urls as on_worker_results collects it from a list of results
ExistingUrls(list) == {DedupKey(list[i]) : i \in 1..Len(list)} \ {""}

\* a result with key nu is dropped: the key is not empty and already seen
IsSeen(nu, existing) == nu # "" /\ nu \in existing

\* existing_urls after a result with key nu is kept
WithKey(existing, nu) == IF nu # "" THEN existing \cup {nu} ELSE existing

\* NewResults with every result of the batch kept: a variant the dedup
\* invariant must tell from the code
NewResultsAll(results, existing) == results

RECURSIVE NewResults(_, _)
\* the results of a batch that are kept: those with no key, and the first of
\* each key not in existing
NewResults(results, existing) ==
    IF Len(results) = 0 THEN <<>>
    ELSE IF IsSeen(DedupKey(results[1]), existing) THEN NewResults(Tail(results), existing)
    ELSE <<results[1]>> \o NewResults(Tail(results), WithKey(existing, DedupKey(results[1])))

\* Extended without the sort: a variant the ordering invariant must tell
\* from the code
ExtendedUnsorted(list, new_results) == list \o new_results

\* Extended with every entry weighed again, against the lists as they are
\* when the batch is merged
ExtendedReweighed(list, new_results) ==
    IF Len(new_results) > 0
    THEN SortDesc([i \in 1..Len(list \o new_results) |->
             [(list \o new_results)[i] EXCEPT
                 !.weight = calculate_weight((list \o new_results)[i], blacklist, whitelist,
                                             authoritative_sites, Now)]])
    ELSE list

\* search_results after new_results, if any, are appended and the list sorted
Extended(list, new_results) ==
    IF Len(new_results) > 0 THEN SortDesc(list \o new_results) ELSE list

\* Merge where a later duplicate takes the place of the earlier entry: a
\* variant first-arrival-wins must tell from the code
MergeLastWins(list, results) ==
    Extended(SelectSeq(list, LAMBDA r : \A n \in 1..Len(results) :
                                           DedupKey(results[n]) # DedupKey(r)),
             NewResults(results, {}))

\* Merge where the batch takes the place of the list
MergeFresh(list, results) == Extended(<<>>, NewResults(results, {}))

\* the list on_worker_results leaves in search_results
Merge(list, results) == Extended(list, NewResults(results, ExistingUrls(list)))

\* what on_worker_results leaves in the window where it leaves merged in
\* search_results: the current page is shown again if results were added
Merged(sig, merged) ==
    /\ search_results' = merged
    /\ IF merged # search_results
       THEN /\ shown' = PageOf(merged, current_page)
            /\ pagination' = TRUE
       ELSE UNCHANGED <<shown, pagination>>
    /\ search_worker' = IF search_worker = sig.worker THEN 0 ELSE search_worker

\* on_worker_results(results, worker), for the signal at the head of the queue
on_worker_results ==
    /\ queue # <<>>
    /\ Head(queue).kind = "results"
    /\ Merged(Head(queue), Merge(search_results, Head(queue).results))
    /\ queue' = Tail(queue)
    /\ UNCHANGED <<unit, settings, iconcache, workers, current_page, loading, registered>>

\* on_worker_error(message, worker): the error is logged and shown, the
\* animation stops
on_worker_error ==
    /\ queue # <<>>
    /\ Head(queue).kind = "error"
    /\ loading' = FALSE
    /\ pagination' = TRUE
    /\ queue' = Tail(queue)
    /\ UNCHANGED <<unit, settings, iconcache, workers, search_results, current_page, shown,
                   search_worker, registered>>

\* _on_finished without loading_dots.stop_animation()
on_finished_keeps_animating ==
    /\ queue # <<>>
    /\ Head(queue).kind = "finished"
    /\ registered' = registered \ {Head(queue).worker}
    /\ pagination' = TRUE
    /\ IF Len(search_results) > 0
       THEN current_page' = 0 /\ shown' = PageOf(search_results, 0)
       ELSE UNCHANGED <<current_page, shown>>
    /\ queue' = Tail(queue)
    /\ UNCHANGED <<unit, settings, iconcache, workers, search_results, search_worker, loading>>

\* _on_finished(w), connected to the worker's finished signal
on_finished ==
    /\ queue # <<>>
    /\ Head(queue).kind = "finished"
    /\ registered' = registered \ {Head(queue).worker}
    /\ loading' = FALSE
    /\ pagination' = TRUE
    /\ IF Len(search_results) > 0
       THEN current_page' = 0 /\ shown' = PageOf(search_results, 0)
       ELSE UNCHANGED <<current_page, shown>>
    /\ queue' = Tail(queue)
    /\ UNCHANGED <<unit, settings, iconcache, workers, search_results, search_worker>>

prev_page ==
    /\ IF current_page > 0
       THEN current_page' = current_page - 1 /\ shown' = PageOf(search_results, current_page - 1)
       ELSE UNCHANGED <<current_page, shown>>
    /\ UNCHANGED <<unit, settings, iconcache, workers, queue, search_results, loading, pagination,
                   search_worker, registered>>

\* next_page without the test against the number of pages
next_page_unbounded ==
    /\ current_page' = current_page + 1
    /\ shown' = PageOf(search_results, current_page + 1)
    /\ UNCHANGED <<unit, settings, iconcache, workers, queue, search_results, loading, pagination,
                   search_worker, registered>>

next_page ==
    /\ IF current_page < total_pages(search_results) - 1
       THEN current_page' = current_page + 1 /\ shown' = PageOf(search_results, current_page + 1)
       ELSE UNCHANGED <<current_page, shown>>
    /\ UNCHANGED <<unit, settings, iconcache, workers, queue, search_results, loading, pagination,
                   search_worker, registered>>

(***************************************************************************)
(* SearchWorker.run                                                        *)
(***************************************************************************)

\* the loop not skipping a disabled engine
FetchedThoughDisabled(e) == e.cfg.api_url # ""

\* the loop skips an engine that is disabled or has no API URL
Fetched(e) == e.cfg.enabled /\ e.cfg.api_url # ""

\* the loop turning to the last engine of the table first
NextFetchedLast(engines, i) ==
    IF \E k \in i..Len(engines) : Fetched(engines[k])
    THEN CHOOSE k \in i..Len(engines) :
             Fetched(engines[k]) /\ \A m \in (k + 1)..Len(engines) : ~Fetched(engines[m])
    ELSE Len(engines) + 1

\* the first index from i on of an engine the loop sends a request to,
\* Len(engines) + 1 if there is none
RECURSIVE NextFetched(_, _)
NextFetched(engines, i) ==
    IF i > Len(engines) THEN i
    ELSE IF Fetched(engines[i]) THEN i
    ELSE NextFetched(engines, i + 1)

\* run begins: engines = list(self.api_manager.search_engines.items())
worker_begin(w) ==
    /\ workers[w].pc = "start"
    /\ workers' = [workers EXCEPT ![w].pc = "run", ![w].engines = search_engines]
    /\ UNCHANGED <<unit, settings, iconcache, queue, window>>

\* what tells the signals of one iteration apart: "results", or "error"
\* with its message
KindsOf(signals) ==
    [i \in 1..Len(signals) |->
        IF signals[i].kind = "error" THEN signals[i].what ELSE signals[i].kind]

BatchOf(signals) ==
    IF Len(signals) > 0 /\ signals[Len(signals)].kind = "results"
    THEN signals[Len(signals)].results ELSE <<>>

\* one iteration of the loop for the next engine that is sent a request,
\* which answers resp
worker_engine(w, resp) ==
    /\ workers[w].pc = "run"
    /\ LET i == NextFetched(workers[w].engines, workers[w].idx)
       IN  /\ i <= Len(workers[w].engines)
           /\ \E out \in {RunEngine(w, workers[w].engines[i].name, workers[w].engines[i].cfg,
                                    resp, iconcache, blacklist, whitelist,
                                    authoritative_sites, Now)} :
                  /\ iconcache' = out.cache
                  /\ queue' = queue \o out.signals
                  /\ workers' = [workers EXCEPT
                         ![w].idx = i + 1,
                         ![w].requested = Append(@, workers[w].engines[i].name),
                         ![w].visit = [engine  |-> workers[w].engines[i].name,
                                       failed  |-> ~resp.ok,
                                       items   |-> out.items,
                                       signals |-> KindsOf(out.signals),
                                       batch   |-> BatchOf(out.signals),
                                       searches |-> Len(workers)]]
    /\ UNCHANGED <<unit, settings, window>>

\* the loop is over: run returns and the thread's finished signal is emitted
worker_finish(w) ==
    /\ workers[w].pc = "run"
    /\ NextFetched(workers[w].engines, workers[w].idx) > Len(workers[w].engines)
    /\ workers' = [workers EXCEPT ![w].pc = "done", ![w].visit = NoVisit]
    /\ queue' = Append(queue, Signal("finished", w, "", "", <<>>))
    /\ UNCHANGED <<unit, settings, iconcache, window>>

\* the answers the engine the worker turns to next may give
RepliesTo(worker) ==
    LET i == NextFetched(worker.engines, worker.idx)
    IN  IF worker.pc = "run" /\ i <= Len(worker.engines)
        THEN Replies(worker.engines[i].name)
        ELSE <<>>

Next ==
    \/ \E text \in Queries : perform_search(text)
    \/ on_worker_results
    \/ on_worker_error
    \/ on_finished
    \/ prev_page
    \/ next_page
    \/ \E w \in 1..Len(workers) : worker_begin(w)
    \/ \E w \in 1..Len(workers) :
           \E r \in 1..Len(RepliesTo(workers[w])) :
               worker_engine(w, RepliesTo(workers[w])[r])
    \/ \E w \in 1..Len(workers) : worker_finish(w)

Spec == Init /\ [][Next]_vars

\* A signal for on_worker_results waits at the head of the queue; the
\* handler has no other condition, so this is when it is enabled.
ResultsQueued == queue # <<>> /\ Head(queue).kind = "results"

\* the step that takes that signal off the queue: on_worker_results
ResultsDelivered == ResultsQueued /\ queue' = Tail(queue)

\* worker w has an engine left to send a request to: worker_engine is
\* enabled, whatever the engine answers
EngineDue(w) ==
    /\ w <= Len(workers)
    /\ workers[w].pc = "run"
    /\ NextFetched(workers[w].engines, workers[w].idx) <= Len(workers[w].engines)

\* the step in which worker w's loop moves past an engine: worker_engine
EngineVisited(w) == w <= Len(workers) /\ workers'[w].idx # workers[w].idx

\* A started thread runs: requests.get has timeout=(15,20), so each request
\* returns or raises, and run has no other wait.  The condition on the loop
\* body is WF_vars of worker_engine for any answer, written by its
\* definition: the body is not for ever due without being taken.
WorkerRuns(w) ==
    /\ WF_vars(w <= Len(workers) /\ worker_begin(w))
    /\ ([]<>(~EngineDue(w)) \/ []<><<EngineVisited(w)>>_vars)
    /\ WF_vars(w <= Len(workers) /\ worker_finish(w))

\* The window thread's event loop delivers every queued signal.  The
\* condition on on_worker_results is WF_vars(on_worker_results) written by
\* its definition.
WindowHandles ==
    /\ WF_vars(on_worker_error)
    /\ WF_vars(on_finished)
    /\ ([]<>(~ResultsQueued) \/ []<><<ResultsDelivered>>_vars)

SpecLive == Spec /\ WindowHandles /\ \A w \in 1..MaxSearches : WorkerRuns(w)

(***************************************************************************)
(* calculate_weight on its own: the lists are any of a few settings, and    *)
(* a result as the worker builds it is weighed                             *)
(***************************************************************************)

\* the age in days of the oldest publish date weighed
MaxDays == 31

Blacklists == {<<>>, <<"csdn.net">>, <<"csdn.net", "b.com">>, <<"CSDN.net">>}

Whitelists == {<<>>, <<"b.com">>, <<"github.com", "csdn.net">>}

AuthoritativeLists == {<<>>, <<"github.com", "stackoverflow.com">>}

\* the urls weighed: hosts on one list, on several, on none; a host in upper
\* case; a url without a scheme, which has no host; no url
WeightUrls ==
    {"http://blog.csdn.net/p", "https://github.com/r", "http://b.com/1", "http://x.org/",
     "http://gist.github.com.csdn.net/", "HTTP://B.COM/", "b.com/x", ""}

\* the instants days days and secs seconds before Now
Ago(days, secs) == Now - days * SecondsPerDay - secs

\* the numbers of seconds between a day ahead of Now and MaxDays days and a
\* day less a second before it: each day's first and last second
DayNumbers ==
    [n \in 1..(2 * (MaxDays + 2)) |->
        JNum(Ago(((n - 1) \div 2) - 1, IF n % 2 = 1 THEN 0 ELSE SecondsPerDay - 1))]

\* the publish dates an item may carry: none, strings that are no date, the
\* numbers of seconds, and digit-only strings
PublishDates ==
    <<JNull, JStr(""), JStr("soon")>> \o DayNumbers \o
    <<JStr(IntToStr(Ago(0, 0))), JStr(IntToStr(Ago(4, 0))), JStr(IntToStr(Ago(5, 0))),
      JStr(IntToStr(Ago(29, 0))), JStr(IntToStr(Ago(30, 0)))>>

InitWeight ==
    /\ search_engines = EngineTables[1]
    /\ blacklist \in Blacklists
    /\ whitelist \in Whitelists
    /\ authoritative_sites \in AuthoritativeLists
    /\ iconcache = <<>>
    /\ call = NoCall
    /\ clock = 0
    /\ threads = <<>>
    /\ WindowInit

\* result['weight'] = calculate_weight(result) for a result with this url and
\* the publish date normalized from pd, as the worker sets them; each
\* behaviour weighs one result
weigh(url, pd) ==
    /\ call = NoCall
    /\ call' = [fn           |-> "calculate_weight",
                url          |-> url,
                publish_date |-> normalize_publish_date(pd),
                weight       |-> calculate_weight(
                                     [url |-> url, publish_date |-> normalize_publish_date(pd)],
                                     blacklist, whitelist, authoritative_sites, Now)]
    /\ UNCHANGED <<settings, iconcache, clock, threads, workers, queue, window>>

NextWeight ==
    \E url \in WeightUrls : \E n \in 1..Len(PublishDates) : weigh(url, PublishDates[n])

SpecWeight == InitWeight /\ [][NextWeight]_vars

(***************************************************************************)
(* canonicalize_url on its own: a url is canonicalized, and the outcome    *)
(* canonicalized once more                                                 *)
(***************************************************************************)

UrlSchemes == {"http://", "HTTP://", "https://"}

UrlHosts == {"a.com", "Example.COM:80", "b.com:443"}

\* no path, the root, trailing slashes, and an encoded percent sign, '?'
\* and '#'
UrlPaths == {"", "/", "/path/", "/p//", "/a%2520b", "/a%3Fb", "/a%23b/"}

UrlQueries == {"", "?utm_source=a&b=2&a=1", "?q=x%20y"}

UrlFragments == {"", "#frag"}

\* the strings canonicalized: every url of these parts, a string without a
\* scheme, and the empty string
Urls ==
    {sch \o host \o path \o query \o frag :
        sch \in UrlSchemes, host \in UrlHosts, path \in UrlPaths,
        query \in UrlQueries, frag \in UrlFragments}
        \cup {"a.com/x", ""}

InitUrl ==
    /\ search_engines = EngineTables[1]
    /\ blacklist = <<"csdn.net">>
    /\ whitelist = <<>>
    /\ authoritative_sites = <<"github.com", "stackoverflow.com">>
    /\ iconcache = <<>>
    /\ call = NoCall
    /\ clock = 0
    /\ threads = <<>>
    /\ WindowInit

\* canonicalize_url(url): first and out are what it returns
canonicalize(url) ==
    /\ call = NoCall
    /\ \E out \in {canonicalize_url(url)} :
           call' = [fn |-> "canonicalize_url", url |-> url, first |-> out, out |-> out,
                    passes |-> 1]
    /\ UNCHANGED <<settings, iconcache, clock, threads, workers, queue, window>>

\* canonicalize_url of what the first call returned
canonicalize_again ==
    /\ call.fn = "canonicalize_url"
    /\ call.passes = 1
    /\ call' = [call EXCEPT !.out = canonicalize_url(call.first), !.passes = 2]
    /\ UNCHANGED <<settings, iconcache, clock, threads, workers, queue, window>>

\* the orders a set of query pairs may be written in
Orders(pairs) ==
    {order \in [1..Cardinality(pairs) -> pairs] :
        \A i, j \in 1..Cardinality(pairs) : order[i] = order[j] => i = j}

\* the tracking pairs a url may carry besides its own
TrackingPairs == {{}, {"utm_medium=x"}, {"fbclid=1"}, {"gclid=2"}, {"utm_=", "gclid=2"}}

\* Families of urls: base is the url up to the query and pairs its query
\* pairs
QueryFamilies ==
    << [base |-> "http://a.com/p", pairs |-> {"b=2", "a=1", "a=0"}],
       [base |-> "HTTPS://b.com:443/path/", pairs |-> {"q=x%20y", "b"}] >>

\* The urls of family n: they differ only in the order of the query pairs,
\* in the tracking pairs among them, and in the fragment.
Variants(n) ==
    {QueryFamilies[n].base \o "?" \o Join(order, "&") \o frag :
        order \in UNION {Orders(QueryFamilies[n].pairs \cup t) : t \in TrackingPairs},
        frag \in UrlFragments}

\* the url of family n with the pairs in some order and nothing else
Plain(n) ==
    QueryFamilies[n].base \o "?" \o
        Join(CHOOSE order \in Orders(QueryFamilies[n].pairs) : TRUE, "&")

\* canonicalize_url of two urls of one family: first is the canonical form
\* of url, out that of other
canonicalize_pair(n, other) ==
    /\ call = NoCall
    /\ call' = [fn |-> "canonicalize_pair", family |-> n, url |-> Plain(n), other |-> other,
                first |-> canonicalize_url(Plain(n)), out |-> canonicalize_url(other)]
    /\ UNCHANGED <<settings, iconcache, clock, threads, workers, queue, window>>

NextUrl ==
    \/ \E url \in Urls : canonicalize(url)
    \/ canonicalize_again
    \/ \E n \in 1..Len(QueryFamilies) : \E other \in Variants(n) : canonicalize_pair(n, other)

SpecUrl == InitUrl /\ [][NextUrl]_vars

(***************************************************************************)
(* ICONCacheManager on its own: one caller after the other, on a cache     *)
(* that is empty, one entry short of full, or full                         *)
(***************************************************************************)

\* the number of calls made on the cache
MaxCalls == 3

\* the cache after add_icon was called at the times 1..n for n keys
Filled(n) ==
    [i \in 1..n |-> [key |-> "k" \o IntToStr(i), icon |-> "icon", timestamp |-> i]]

\* Filled(n) after the first key was written once more, at time n + 1: first
\* in dict order, last by timestamp
Rewritten(n) == [Filled(n) EXCEPT ![1].timestamp = n + 1]

Caches == {<<>>, Filled(max_size - 1), Filled(max_size), Rewritten(max_size)}

\* the keys written: two that may be cached and two that are not
AddedKeys == {"k1", "k2", "new1", "new2"}

ReadKeys == {"k1", "k2", "new1"}

\* the calls made so far: how many, and the keys get_icon was called for
Called(fn, url, out) ==
    [fn |-> fn, url |-> url, out |-> out, n |-> call.n + 1,
     read |-> IF fn = "get_icon" THEN call.read \cup {url} ELSE call.read]

InitCache ==
    /\ search_engines = EngineTables[1]
    /\ blacklist = <<"csdn.net">>
    /\ whitelist = <<>>
    /\ authoritative_sites = <<"github.com", "stackoverflow.com">>
    /\ iconcache \in Caches
    /\ call = [fn |-> "", url |-> "", out |-> None, n |-> 0, read |-> {}]
    /\ clock = max_size + 1
    /\ threads = <<>>
    /\ WindowInit

\* iconcache.add_icon(url, icon) at the next reading of the clock
cache_add(url) ==
    /\ call.n < MaxCalls
    /\ clock' = clock + 1
    /\ iconcache' = add_icon(iconcache, url, "icon", clock + 1)
    /\ call' = Called("add_icon", url, None)
    /\ UNCHANGED <<settings, threads, workers, queue, window>>

\* iconcache.get_icon(url)
cache_get(url) ==
    /\ call.n < MaxCalls
    /\ iconcache' = Looked(iconcache, url)
    /\ call' = Called("get_icon", url, get_icon(iconcache, url))
    /\ UNCHANGED <<settings, clock, threads, workers, queue, window>>

NextCache ==
    \/ \E url \in AddedKeys : cache_add(url)
    \/ \E url \in ReadKeys : cache_get(url)

SpecCache == InitCache /\ [][NextCache]_vars

(***************************************************************************)
(* add_icon called by the threads of two searches at once.  The threads    *)
(* take turns between the statements of add_icon, and between the start    *)
(* and the end of the iteration over the dict that min() makes: the key    *)
(* function is Python code, so the interpreter may switch threads inside.  *)
(***************************************************************************)

\* A thread: pc is "call" (add_icon not yet called), "test" (the entry is
\* stored), "scan" (the cache was found over max_size), "scanning" (min()
\* iterates; size is the size of the dict and oldest the key of its oldest
\* entry when the iteration began), "delete" (oldest is the key to delete),
\* "returned", or "raised" (add_icon was left by an exception).
NoThread == [pc |-> "call", url |-> "", size |-> 0, oldest |-> "", error |-> ""]

RaceKeys == {"k1", "new1", "new2"}

InitRace ==
    /\ search_engines = EngineTables[1]
    /\ blacklist = <<"csdn.net">>
    /\ whitelist = <<>>
    /\ authoritative_sites = <<"github.com", "stackoverflow.com">>
    /\ iconcache \in {Filled(max_size - 1), Filled(max_size)}
    /\ call = NoCall
    /\ clock = max_size + 1
    /\ threads = <<NoThread, NoThread>>
    /\ WindowInit

\* self.cache[url] = {"icon": icon_data, "timestamp": time.time()}
race_store(t, url) ==
    /\ threads[t].pc = "call"
    /\ clock' = clock + 1
    /\ iconcache' = Stored(iconcache, url, "icon", clock + 1)
    /\ threads' = [threads EXCEPT ![t].pc = "test", ![t].url = url]
    /\ UNCHANGED <<settings, call, workers, queue, window>>

\* if len(self.cache) > self.max_size
race_test(t) ==
    /\ threads[t].pc = "test"
    /\ threads' = [threads EXCEPT
           ![t].pc = IF Len(iconcache) > max_size THEN "scan" ELSE "returned"]
    /\ UNCHANGED <<settings, iconcache, call, clock, workers, queue, window>>

\* min(self.cache.items(), ...): the iteration begins
race_scan_begin(t) ==
    /\ threads[t].pc = "scan"
    /\ threads' = [threads EXCEPT ![t].pc = "scanning",
                                  ![t].size = Len(iconcache),
                                  ![t].oldest = iconcache[Oldest(iconcache)].key]
    /\ UNCHANGED <<settings, iconcache, call, clock, workers, queue, window>>

\* the iteration ends: RuntimeError if the dict has changed its size since
\* the iteration began; otherwise the minimum is taken over the entries the
\* iterator came by, those of the dict as it was or as it is
race_scan_end(t) ==
    /\ threads[t].pc = "scanning"
    /\ IF Len(iconcache) # threads[t].size
       THEN threads' = [threads EXCEPT ![t].pc = "raised", ![t].error = "RuntimeError"]
       ELSE \E key \in {threads[t].oldest, iconcache[Oldest(iconcache)].key} :
                threads' = [threads EXCEPT ![t].pc = "delete", ![t].oldest = key]
    /\ UNCHANGED <<settings, iconcache, call, clock, workers, queue, window>>

\* del self.cache[oldest_url]: KeyError if the key is not in the dict
race_delete(t) ==
    /\ threads[t].pc = "delete"
    /\ IF CacheIndex(iconcache, threads[t].oldest) = 0
       THEN /\ threads' = [threads EXCEPT ![t].pc = "raised", ![t].error = "KeyError"]
            /\ UNCHANGED iconcache
       ELSE /\ threads' = [threads EXCEPT ![t].pc = "returned"]
            /\ iconcache' = RemoveAt(iconcache, CacheIndex(iconcache, threads[t].oldest))
    /\ UNCHANGED <<settings, call, clock, workers, queue, window>>

NextRace ==
    \/ \E t \in 1..Len(threads) : \E url \in RaceKeys : race_store(t, url)
    \/ \E t \in 1..Len(threads) : race_test(t)
    \/ \E t \in 1..Len(threads) : race_scan_begin(t)
    \/ \E t \in 1..Len(threads) : race_scan_end(t)
    \/ \E t \in 1..Len(threads) : race_delete(t)

SpecRace == InitRace /\ [][NextRace]_vars

(***************************************************************************)
(* The program with the settings window open: the blacklist and whitelist  *)
(* tables are edited while searches run                                    *)
(***************************************************************************)

\* the number of searches the user starts while editing the lists
MaxEditedSearches == 1

\* the rows a list table may hold when it is saved
BlacklistTables == {<<>>, <<"csdn.net">>, <<" a.com ", "">>}

WhitelistTables == {<<>>, <<"b.com">>}

\* the list rebuilt from the rows of a table: the stripped texts that are not
\* empty
FromTable(rows) ==
    SelectSeq([i \in 1..Len(rows) |-> LStrip(RStrip(rows[i], " "), " ")], LAMBDA text : text # "")

\* SettingsWindow.on_blacklist_table_changed
on_blacklist_table_changed(rows) ==
    /\ blacklist' = FromTable(rows)
    /\ UNCHANGED <<search_engines, whitelist, authoritative_sites>>
    /\ UNCHANGED <<unit, iconcache, workers, queue, window>>

\* SettingsWindow.on_whitelist_table_changed
on_whitelist_table_changed(rows) ==
    /\ whitelist' = FromTable(rows)
    /\ UNCHANGED <<search_engines, blacklist, authoritative_sites>>
    /\ UNCHANGED <<unit, iconcache, workers, queue, window>>

InitEdit == Init /\ search_engines = EngineTables[1]

NextEdit ==
    \/ \E text \in Queries : Len(workers) < MaxEditedSearches /\ perform_search(text)
    \/ on_worker_results
    \/ on_worker_error
    \/ on_finished
    \/ prev_page
    \/ next_page
    \/ \E w \in 1..Len(workers) : worker_begin(w)
    \/ \E w \in 1..Len(workers) :
           \E r \in 1..Len(RepliesTo(workers[w])) :
               worker_engine(w, RepliesTo(workers[w])[r])
    \/ \E w \in 1..Len(workers) : worker_finish(w)
    \/ \E rows \in BlacklistTables : on_blacklist_table_changed(rows)
    \/ \E rows \in WhitelistTables : on_whitelist_table_changed(rows)

SpecEdit == InitEdit /\ [][NextEdit]_vars

(***************************************************************************)
(* One loop iteration on its own: engine B, with some results path, is     *)
(* answered some body                                                      *)
(***************************************************************************)

Hit1 == JDict([name |-> JStr("H1"), link |-> JStr("http://a.com/1")])

Hit2 == JDict([name |-> JStr("H2"), link |-> JStr("http://b.com/2")])

\* the bodies: no JSON; lists, objects and scalars at the top, midway and at
\* the end of the path data.hits
Bodies ==
    << JNull,
       JDict([data |-> JDict([hits |-> JList(<<Hit1, Hit2>>)])]),
       JDict([data |-> JDict([hits |-> Hit1])]),
       JDict([data |-> JDict([hits |-> JStr("none")])]),
       JDict([data |-> JDict([hits |-> JNull])]),
       JDict([data |-> JDict([hits |-> JList(<<>>)])]),
       JDict([data |-> JList(<<JDict([hits |-> JList(<<Hit1>>)])>>)]),
       JDict([data |-> JNum(5)]),
       JDict([total |-> JNum(0)]),
       JDict([hits |-> JList(<<Hit2>>)]),
       JDict([results |-> JList(<<Hit1>>), data |-> JDict([hits |-> JList(<<Hit2>>)])]),
       JList(<<Hit2, Hit1>>),
       JList(<<>>),
       JNum(5),
       JStr("data.hits"),
       JDict([items |-> JList(<<Hit2>>), total |-> JNum(1)]),
       JDict([results |-> JList(<<Hit1>>), items |-> JList(<<Hit2>>)]),
       JDict([results |-> JStr("none"), items |-> JList(<<Hit2, Hit1>>)]),
       JDict([results |-> Hit1, items |-> Hit2]) >>

\* the results_path of the engine: none, dotted paths with and without the
\* leading dot, empty segments, the document itself, a path into an item
ResultsPaths ==
    {"", ".", "..", ".data.hits", "data.hits", "data..hits.", "data", "hits", "data.hits.name"}

InitExtract ==
    /\ search_engines = EngineTables[1]
    /\ blacklist = <<"csdn.net">>
    /\ whitelist = <<"b.com">>
    /\ authoritative_sites = <<"github.com", "stackoverflow.com">>
    /\ iconcache = <<>>
    /\ call = NoCall
    /\ clock = 0
    /\ threads = <<>>
    /\ WindowInit

\* the iteration of run for engine B with results_path path, whose request
\* is answered Bodies[n]: the items extracted, the signals emitted
engine_answers(n, path) ==
    /\ call = NoCall
    /\ \E out \in {RunEngine(1, "B", [EngineB.cfg EXCEPT !.results_path = path],
                             Body(Bodies[n]), iconcache, blacklist, whitelist,
                             authoritative_sites, Now)} :
           /\ call' = [fn |-> "run", body |-> n, results_path |-> path,
                       items |-> out.items, signals |-> out.signals]
           /\ iconcache' = out.cache
    /\ UNCHANGED <<settings, clock, threads, workers, queue, window>>

NextExtract == \E n \in 1..Len(Bodies) : \E path \in ResultsPaths : engine_answers(n, path)

SpecExtract == InitExtract /\ [][NextExtract]_vars

(***************************************************************************)
(* The request url on its own: an engine's api_url, the query and the API  *)
(* key are any of a few                                                    *)
(***************************************************************************)

\* templates with one placeholder, with two different ones, with one twice,
\* with a placeholder in other case, and urls without any
ApiUrls ==
    {"https://e.x/s?q={query}", "https://e.x/s?q={q}", "https://e.x/{keyword}",
     "https://e.x/s?w={search}", "https://e.x/s?q={q}&k={keyword}",
     "https://e.x/s?a={search}&b={query}", "https://e.x/{q}/{q}",
     "https://e.x/s?q={query}&key={apikey}", "https://e.x/s?k={api_key}&t={key}",
     "https://e.x/s?t={key}", "https://e.x/s", "https://e.x/s?lang=en",
     "https://e.x/s?Query=fixed", "https://e.x/s?q={QUERY}", "https://e.x/s#q="}

SearchTexts == {"tla", "a b", "c&d={q}", "{key}"}

ApiKeys == {"", "k 1"}

InitRequest ==
    /\ search_engines = EngineTables[1]
    /\ blacklist = <<"csdn.net">>
    /\ whitelist = <<>>
    /\ authoritative_sites = <<"github.com", "stackoverflow.com">>
    /\ iconcache = <<>>
    /\ call = NoCall
    /\ clock = 0
    /\ threads = <<>>
    /\ WindowInit

\* run builds the request url of an engine
build_request(api_url, query, api_key) ==
    /\ call = NoCall
    /\ call' = [fn |-> "request_url", api_url |-> api_url, query |-> query,
                api_key |-> api_key, out |-> request_url(api_url, query, api_key)]
    /\ UNCHANGED <<settings, iconcache, clock, threads, workers, queue, window>>

NextRequest ==
    \E api_url \in ApiUrls : \E query \in SearchTexts : \E api_key \in ApiKeys :
        build_request(api_url, query, api_key)

SpecRequest == InitRequest /\ [][NextRequest]_vars

(***************************************************************************)
(* Paging: the program with engines that answer more results than a page   *)
(* holds, so that the list runs over two and three pages                   *)
(***************************************************************************)

\* the k-th result of a long answer of engine A
PageItemA(k) ==
    JDict([title |-> JStr("P" \o IntToStr(k)), url |-> JStr("http://p.com/" \o IntToStr(k))])

\* the k-th result of a long answer of engine B, on a whitelisted host
PageItemB(k) ==
    JDict([name |-> JStr("Q" \o IntToStr(k)), link |-> JStr("http://b.com/q" \o IntToStr(k))])

\* engine A: no answer, eleven results, or nine other results
PageRepliesA ==
    << Failure,
       Body(JList([k \in 1..11 |-> PageItemA(k)])),
       Body(JList([k \in 1..9 |-> PageItemA(k + 11)])) >>

\* engine B: no hits, or ten of them
PageRepliesB ==
    << Body(JDict([data |-> JDict([hits |-> JList(<<>>)])])),
       Body(JDict([data |-> JDict([hits |-> JList([k \in 1..10 |-> PageItemB(k)])])])) >>

PageRepliesTo(worker) ==
    LET i == NextFetched(worker.engines, worker.idx)
    IN  IF worker.pc = "run" /\ i <= Len(worker.engines)
        THEN IF worker.engines[i].name = "A" THEN PageRepliesA ELSE PageRepliesB
        ELSE <<>>

InitPage == Init /\ search_engines = EngineTables[1]

NextPage ==
    \/ \E text \in Queries : perform_search(text)
    \/ on_worker_results
    \/ on_worker_error
    \/ on_finished
    \/ prev_page
    \/ next_page
    \/ \E w \in 1..Len(workers) : worker_begin(w)
    \/ \E w \in 1..Len(workers) :
           \E r \in 1..Len(PageRepliesTo(workers[w])) :
               worker_engine(w, PageRepliesTo(workers[w])[r])
    \/ \E w \in 1..Len(workers) : worker_finish(w)

SpecPage == InitPage /\ [][NextPage]_vars

(***************************************************************************)
(* The engine table edited in the settings window while a search runs      *)
(***************************************************************************)

\* the text of a cell of api_table, or the default where the cell has no item
CellText(cell, default) == IF cell = None THEN default ELSE cell[1]

\* the configuration on_api_table_changed builds from one row
RowCfg(row) ==
    [enabled           |-> TRUE,
     api_url           |-> CellText(row.api_url, ""),
     api_key           |-> CellText(row.api_key, ""),
     results_path      |-> CellText(row.results_path, ""),
     json_title        |-> JStr(CellText(row.json_title, "title")),
     json_url          |-> JStr(CellText(row.json_url, "url")),
     json_snippet      |-> JStr(CellText(row.json_snippet, "snippet")),
     json_publish_date |-> JStr(CellText(row.json_publish_date, "publish_date")),
     json_keyheader    |-> CellText(row.json_keyheader, "")]

\* se[engine] = cfg: a name the dict holds keeps its place
SetEngine(se, name, cfg) ==
    IF \E i \in 1..Len(se) : se[i].name = name
    THEN [i \in 1..Len(se) |-> IF se[i].name = name THEN [name |-> name, cfg |-> cfg] ELSE se[i]]
    ELSE Append(se, [name |-> name, cfg |-> cfg])

RECURSIVE FromApiTable(_)
\* the dict se built from the rows: a row without an engine item is skipped
FromApiTable(rows) ==
    IF Len(rows) = 0 THEN <<>>
    ELSE LET se  == FromApiTable(SubSeq(rows, 1, Len(rows) - 1))
             row == rows[Len(rows)]
         IN  IF row.engine = None THEN se
             ELSE SetEngine(se, row.engine[1], RowCfg(row))

\* on_api_table_changed writing the new table into the list a run iterates
on_api_table_changed_in_place(rows) ==
    /\ search_engines' = FromApiTable(rows)
    /\ workers' = [w \in 1..Len(workers) |->
                      IF workers[w].pc = "start" THEN workers[w]
                      ELSE [workers[w] EXCEPT !.engines = FromApiTable(rows)]]
    /\ UNCHANGED <<blacklist, whitelist, authoritative_sites>>
    /\ UNCHANGED <<unit, iconcache, queue, window>>

\* SettingsWindow.on_api_table_changed
on_api_table_changed(rows) ==
    /\ search_engines' = FromApiTable(rows)
    /\ UNCHANGED <<blacklist, whitelist, authoritative_sites>>
    /\ UNCHANGED <<unit, iconcache, workers, queue, window>>

\* a row with an item in every cell
ApiRow(engine, api_url, results_path, title, url, snippet, publish_date) ==
    [engine |-> Some(engine), api_url |-> Some(api_url), api_key |-> Some(""),
     results_path |-> Some(results_path), json_title |-> Some(title), json_url |-> Some(url),
     json_snippet |-> Some(snippet), json_publish_date |-> Some(publish_date),
     json_keyheader |-> Some("")]

\* a row as insertRow leaves it, with the given items only
BareRow(engine, api_url) ==
    [engine |-> engine, api_url |-> api_url, api_key |-> None, results_path |-> None,
     json_title |-> None, json_url |-> None, json_snippet |-> None,
     json_publish_date |-> None, json_keyheader |-> None]

RowA == ApiRow("A", "https://a.example/s?q={query}", "", "title", "url", "snippet", "publish_date")

RowB == ApiRow("B", "https://b.example/find", ".data.hits", "name", "link", "", "date")

\* engine B with its results path cleared
RowBNoPath == ApiRow("B", "https://b.example/find", "", "name", "link", "", "date")

\* engine A reading its titles from another key
RowAOtherTitle == ApiRow("A", "https://a.example/s?q={query}", "", "snippet", "url", "snippet", "publish_date")

\* the tables the editor may hold after an edit: engine A deleted and B
\* edited; an engine added ahead of A, A edited, a row without a name
ApiTables ==
    { <<RowBNoPath>>,
      <<BareRow(Some("C"), Some("https://c.example/s")), RowAOtherTitle, BareRow(None, None), RowB>>,
      <<RowA, RowB, RowAOtherTitle>> }

NextTable ==
    \/ \E text \in Queries : Len(workers) < MaxEditedSearches /\ perform_search(text)
    \/ on_worker_results
    \/ on_worker_error
    \/ on_finished
    \/ prev_page
    \/ next_page
    \/ \E w \in 1..Len(workers) : worker_begin(w)
    \/ \E w \in 1..Len(workers) :
           \E r \in 1..Len(RepliesTo(workers[w])) :
               worker_engine(w, RepliesTo(workers[w])[r])
    \/ \E w \in 1..Len(workers) : worker_finish(w)
    \/ \E rows \in ApiTables : on_api_table_changed(rows)

SpecTable == InitEdit /\ [][NextTable]_vars

(***************************************************************************)
(* ICONCacheManager with a clock that may read the same twice: time.time() *)
(* does not go back, and two calls may get the same reading                *)
(***************************************************************************)

\* n keys all written at the reading max_size of the clock
WrittenAtOnce(n) ==
    [i \in 1..n |-> [key |-> "k" \o IntToStr(i), icon |-> "icon", timestamp |-> max_size]]

WrittenKeys == {"k1", "new1", "new2"}

\* how far the clock may have gone on between two calls
Ticks == {0, 1}

InitTies ==
    /\ search_engines = EngineTables[1]
    /\ blacklist = <<"csdn.net">>
    /\ whitelist = <<>>
    /\ authoritative_sites = <<"github.com", "stackoverflow.com">>
    /\ iconcache \in {<<>>, Filled(max_size - 1), Filled(max_size), WrittenAtOnce(max_size)}
    /\ call = [fn |-> "", url |-> "", out |-> None, n |-> 0, read |-> {}]
    /\ clock = max_size
    /\ threads = <<>>
    /\ WindowInit

\* iconcache.add_icon(url, icon_data), time.time() reading clock + tick
cache_write(url, icon_data, tick) ==
    /\ call.n < MaxCalls
    /\ clock' = clock + tick
    /\ iconcache' = add_icon(iconcache, url, icon_data, clock + tick)
    /\ call' = [fn |-> "add_icon", url |-> url, out |-> None, icon |-> icon_data,
                n |-> call.n + 1, read |-> call.read]
    /\ UNCHANGED <<settings, threads, workers, queue, window>>

NextTies ==
    \/ \E url \in WrittenKeys : \E tick \in Ticks : cache_write(url, "new", tick)
    \/ \E url \in ReadKeys : cache_get(url)

SpecTies == InitTies /\ [][NextTies]_vars

(***************************************************************************)
(* Properties                                                              *)
(***************************************************************************)

\* the step is on_worker_results taking a batch off the queue
Delivers == queue # <<>> /\ Head(queue).kind = "results" /\ queue' = Tail(queue)

\* the step is one loop iteration of worker w
Visits(w) == workers'[w].idx # workers[w].idx

Titles(list) == [i \in 1..Len(list) |-> list[i].title]

NormUrls(list) == [i \in 1..Len(list) |-> list[i].norm_url]

\* C1: no two entries of search_results have the same canonical URL, and the
\* canonical URL of every entry is in the set existing_urls the next
\* on_worker_results collects from the list
C1_NoSharedCanonicalUrl ==
    /\ \A i, j \in 1..Len(search_results) :
           DedupKey(search_results[i]) = DedupKey(search_results[j]) => i = j
    /\ \A i \in 1..Len(search_results) :
           DedupKey(search_results[i]) \in ExistingUrls(search_results)

\* C1 at work: the second search merges engine B's batch Z, W after the
\* batches with X and D6, which have the canonical URLs of Z and W: the list
\* holds the five canonical URLs once each, and neither Z nor W
C1_Witness ==
    /\ Len(workers) = 2
    /\ workers[1].pc = "done"
    /\ workers[2].visit.engine = "B"
    /\ Titles(workers[2].visit.batch) = <<"Z", "W">>
    /\ queue = <<>>
    /\ Len(search_results) = 5
    /\ \A i \in 1..Len(search_results) : search_results[i].title \notin {"Z", "W"}

\* C2: when a batch is merged, each canonical URL in it has exactly one entry
\* in the list afterwards, and if the list had an entry for it before, that
\* entry is still the one, unchanged; no merge removes or changes an entry
C2_FirstArrivalWins ==
    [][ /\ \A i \in 1..Len(search_results) :
               \E j \in 1..Len(search_results') : search_results'[j] = search_results[i]
        /\ Delivers =>
               \A n \in 1..Len(Head(queue).results) :
                   \E j \in 1..Len(search_results') :
                       /\ DedupKey(search_results'[j]) = DedupKey(Head(queue).results[n])
                       /\ \A k \in 1..Len(search_results') :
                              DedupKey(search_results'[k]) = DedupKey(search_results'[j])
                                  => k = j
                       /\ \A i \in 1..Len(search_results) :
                              DedupKey(search_results[i]) = DedupKey(search_results'[j])
                                  => search_results'[j] = search_results[i] ]_vars

\* C2 at work: in one run engine A's X was merged, then engine B's batch with
\* Z, whose URL has the canonical form of X's: the entry is X, and Z is not
\* in the list
C2_Witness ==
    /\ Len(workers) = 1
    /\ workers[1].visit.engine = "B"
    /\ \E n \in 1..Len(workers[1].visit.batch) :
           /\ workers[1].visit.batch[n].title = "Z"
           /\ \E i \in 1..Len(search_results) :
                  /\ search_results[i].norm_url = workers[1].visit.batch[n].norm_url
                  /\ search_results[i].title = "X"
                  /\ search_results[i].source = "A"
    /\ queue = <<>>
    /\ \A i \in 1..Len(search_results) : search_results[i].title # "Z"

\* the end-to-end example: the first run has merged engine A's one item X
\* and nothing else, and the step merges engine B's one item Y
ExampleStep ==
    /\ Len(workers) = 1
    /\ Len(search_results) = 1
    /\ search_results[1].title = "X"
    /\ search_results[1].url = "http://a.com/?utm_source=z"
    /\ search_results[1].source = "A"
    /\ Delivers
    /\ Head(queue).engine = "B"
    /\ Len(Head(queue).results) = 1
    /\ Head(queue).results[1].title = "Y"
    /\ Head(queue).results[1].url = "http://a.com"

\* C3 as stated: after engine A's X (http://a.com/?utm_source=z) and engine
\* B's Y (http://a.com) the list has exactly one entry, X, with the canonical
\* URL "http://a.com"
C3_OneEntryAsStated ==
    [][ ExampleStep =>
            /\ Len(search_results') = 1
            /\ search_results'[1].title = "X"
            /\ search_results'[1].norm_url = "http://a.com" ]_vars

\* C3, amended: after engine A's X (http://a.com/?utm_source=z) and engine
\* B's Y (http://a.com) the list has two entries, X with the canonical URL
\* "http://a.com/" (the root path is kept) and then Y with "http://a.com"
C3_TwoEntries ==
    [][ ExampleStep =>
            /\ Titles(search_results') = <<"X", "Y">>
            /\ NormUrls(search_results') = <<"http://a.com/", "http://a.com">> ]_vars

\* C3 at work: the list after the example's two batches
C3_Witness ==
    /\ Len(workers) = 1
    /\ workers[1].requested = <<"A", "B">>
    /\ queue = <<>>
    /\ Len(search_results) = 2
    /\ search_results[1].title = "X" /\ search_results[1].source = "A"
    /\ search_results[2].title = "Y" /\ search_results[2].source = "B"
    /\ search_results[2].norm_url = "http://a.com"

\* C4 as stated: when perform_search starts a new search, the result list
\* (and with it the set of seen canonical URLs, which is collected from the
\* list) is empty
C4_NewSearchStartsEmpty ==
    [][ Len(workers') > Len(workers) => search_results' = <<>> ]_vars

\* C5 as stated: a batch that a worker emitted after a later search was
\* started is not merged: its delivery leaves search_results as it was
C5_SupersededBatchDiscarded ==
    [][ ( /\ Delivers
          /\ workers[Head(queue).worker].visit.engine = Head(queue).engine
          /\ workers[Head(queue).worker].visit.searches > Head(queue).worker )
            => search_results' = search_results ]_vars

\* C6: the whole of search_results is in descending order of (weight,
\* publish date as epoch seconds, 0 without a date)
C6_SortedByWeightThenDate ==
    \A i \in 1..(Len(search_results) - 1) :
        ~KeyLess(SortKey(search_results[i]), SortKey(search_results[i + 1]))

\* C6 at work: X and the batch D6, C, D5 are merged: the two from the batch
\* with the higher weight stand before X, the newer first, the blacklisted C
\* behind it
C6_Witness ==
    /\ Titles(search_results) = <<"A result", "D6", "X", "C">>
    /\ search_results[1].weight = search_results[2].weight
    /\ search_results[1].publish_date[1] > search_results[2].publish_date[1]
    /\ search_results[2].weight > search_results[3].weight
    /\ search_results[4].weight = SENTINEL

\* C7 as stated: every loop iteration for an engine emits a signal to the
\* window, a batch of results or an error
C7_EventAfterEveryEngine ==
    [][ \A w \in 1..Len(workers) : Visits(w) => Len(queue') > Len(queue) ]_vars

\* the names of the engines of a snapshot that the loop sends a request to
FetchedNames(engines) ==
    LET fetched == SelectSeq(engines, Fetched) IN [i \in 1..Len(fetched) |-> fetched[i].name]

\* C8: a loop iteration whose request fails emits exactly one signal, an
\* error naming the engine, and the loop goes on; run does not return before
\* every enabled engine with an API URL was sent its request
C8_FailureIsOneErrorAndRunGoesOn ==
    [][ \A w \in 1..Len(workers) :
            /\ (Visits(w) /\ workers'[w].visit.failed) =>
                   /\ queue' = Append(queue, Signal("error", w, workers'[w].visit.engine,
                                                    "request", <<>>))
                   /\ workers'[w].visit.batch = <<>>
                   /\ workers'[w].pc = "run"
            /\ workers'[w].pc = "done" =>
                   workers'[w].requested = FetchedNames(workers'[w].engines) ]_vars

\* C8 at work: engine A's request failed, and engine B, next in the table,
\* was sent its request and its batch emitted
C8_Witness ==
    /\ Len(workers) = 1
    /\ Len(queue) = 2
    /\ queue[1] = Signal("error", 1, "A", "request", <<>>)
    /\ queue[2].kind = "results" /\ queue[2].engine = "B" /\ queue[2].worker = 1
    /\ workers[1].requested = <<"A", "B">>

\* the error signals among the signals of an iteration
Errors(signals) == SelectSeq(signals, LAMBDA k : k # "results")

\* C9 as stated: of the items of an answered request, the batch emitted
\* lacks only those reported as failed, one error each
C9_OnlyTheFailedItemSkipped ==
    \A w \in 1..Len(workers) :
        ~workers[w].visit.failed =>
            Len(workers[w].visit.batch) =
                Len(workers[w].visit.items) - Len(Errors(workers[w].visit.signals))

\* the engine of worker w's latest iteration
Visited(w) == workers[w].engines[workers[w].idx - 1]

\* item has no value under key nor under the default key name
Lacks(it, key, name) ==
    it.t # "dict" \/ ~Truthy(PyOr(DictGet(it, key), DictGet(it, JStr(name))))

\* C10 as stated: the batch emitted has one result per extracted item, in
\* order, titled "<engine> result" where the item has no title, and with ""
\* for a url or snippet the item does not have
C10_EveryItemBecomesAResult ==
    \A w \in 1..Len(workers) :
        (workers[w].visit.engine # "" /\ ~workers[w].visit.failed) =>
            /\ Len(workers[w].visit.batch) = Len(workers[w].visit.items)
            /\ \A n \in 1..Len(workers[w].visit.batch) :
                   /\ (workers[w].visit.items[n].t = "dict"
                         /\ Lacks(workers[w].visit.items[n], Visited(w).cfg.json_title, "title"))
                        => workers[w].visit.batch[n].title = Visited(w).name \o " result"
                   /\ Lacks(workers[w].visit.items[n], Visited(w).cfg.json_url, "url")
                        => workers[w].visit.batch[n].url = ""
                   /\ Lacks(workers[w].visit.items[n], Visited(w).cfg.json_snippet, "snippet")
                        => workers[w].visit.batch[n].snippet = ""

\* the host of a result, as calculate_weight takes it from the url, contains
\* an entry of the blacklist
Blacklisted(r) == AnyIn(blacklist, Domain(r.url))

\* C11 as stated: no result on a blacklisted host is in search_results or
\* among the results shown, whatever batches were merged
C11_BlacklistedNeverListed ==
    /\ \A i \in 1..Len(search_results) : ~Blacklisted(search_results[i])
    /\ \A i \in 1..Len(shown) : ~Blacklisted(shown[i])

\* the call examined is one of calculate_weight
Weighed == call.fn = "calculate_weight"

\* the host of the result weighed: the netloc of its url in lower case
WeighedHost == Domain(call.url)

\* C12: a result whose host contains an entry of the blacklist weighs -999,
\* whether or not the host is on the whitelist or the authoritative list and
\* whatever its publish date
C12_BlacklistedIsSentinel ==
    (Weighed /\ AnyIn(blacklist, WeighedHost)) => call.weight = 10 * (-999)

\* C12 at work: a host on all three lists, with a publish date of today
C12_Witness ==
    /\ Weighed
    /\ call.url = "http://gist.github.com.csdn.net/"
    /\ call.publish_date = Some(Now)
    /\ AnyIn(blacklist, WeighedHost)
    /\ AnyIn(whitelist, WeighedHost)
    /\ AnyIn(authoritative_sites, WeighedHost)
    /\ call.weight = 10 * (-999)

\* the weight, in tenths, the result weighed gets where every list is empty:
\* its recency term
RecencyTerm == WeightOf(WeighedHost, call.publish_date, <<>>, <<>>, <<>>, Now)

\* C13: the weight of a result whose host is not blacklisted is the sum of
\* 1.5 if the host contains a whitelist entry, 1.0 if it contains an
\* authoritative entry, and the recency term; without a publish date it is
\* 1.5 for a host on the whitelist only and 2.5 for a host on both lists
C13_WeightIsSumOfTerms ==
    (Weighed /\ ~AnyIn(blacklist, WeighedHost)) =>
        /\ call.weight = (IF AnyIn(whitelist, WeighedHost) THEN 15 ELSE 0)
                           + (IF AnyIn(authoritative_sites, WeighedHost) THEN 10 ELSE 0)
                           + RecencyTerm
        /\ call.publish_date = None =>
               /\ (AnyIn(whitelist, WeighedHost) /\ ~AnyIn(authoritative_sites, WeighedHost))
                      => call.weight = 15
               /\ (AnyIn(whitelist, WeighedHost) /\ AnyIn(authoritative_sites, WeighedHost))
                      => call.weight = 25

\* C13 at work: a host on the whitelist and the authoritative list, not
\* blacklisted, no publish date
C13_Witness ==
    /\ Weighed
    /\ call.url = "https://github.com/r"
    /\ call.publish_date = None
    /\ ~AnyIn(blacklist, WeighedHost)
    /\ AnyIn(whitelist, WeighedHost)
    /\ AnyIn(authoritative_sites, WeighedHost)
    /\ call.weight = 25

\* the age in whole days of the publish date of the result weighed
DaysAgo == (Now - call.publish_date[1]) \div SecondsPerDay

\* the weight of the result weighed less its list terms, in tenths
WeighedRecency ==
    call.weight - (IF AnyIn(whitelist, WeighedHost) THEN 15 ELSE 0)
                - (IF AnyIn(authoritative_sites, WeighedHost) THEN 10 ELSE 0)

\* C14: the recency term of a result that is not blacklisted is 0.5, 0.4,
\* 0.3, 0.2, 0.1 for a publish date 0, 1, 2, 3, 4 days old, 0 for 5 to 29
\* days, -0.5 for 30 days or more, and 0 for no publish date or one that is
\* not a date
C14_RecencyTable ==
    (Weighed /\ ~AnyIn(blacklist, WeighedHost)) =>
        IF call.publish_date = None THEN WeighedRecency = 0
        ELSE /\ DaysAgo \in 0..4 => WeighedRecency = 5 - DaysAgo
             /\ DaysAgo \in 5..29 => WeighedRecency = 0
             /\ DaysAgo >= 30 => WeighedRecency = -5

\* C14 at work: a publish date exactly 30 days old, on a host on no list
C14_Witness ==
    /\ Weighed
    /\ call.url = "http://x.org/"
    /\ call.publish_date = Some(Ago(30, 0))
    /\ DaysAgo = 30
    /\ call.weight = -5

\* C15 as stated: canonicalizing what canonicalize_url returned returns it
\* unchanged, whatever the url, encoded characters in its path included
C15_Idempotent ==
    (call.fn = "canonicalize_url" /\ call.passes = 2) => call.out = call.first

\* C16: the canonical form of
\* "HTTP://Example.COM:80/path/?utm_source=a&b=2&a=1#frag" is
\* "http://example.com/path?a=1&b=2"
C16_ExampleCanonicalForm ==
    ( /\ call.fn = "canonicalize_url"
      /\ call.url = "HTTP://Example.COM:80/path/?utm_source=a&b=2&a=1#frag" )
        => call.first = "http://example.com/path?a=1&b=2"

\* C16 at work: the example was canonicalized
C16_Witness ==
    /\ call.fn = "canonicalize_url"
    /\ call.passes = 1
    /\ call.url = "HTTP://Example.COM:80/path/?utm_source=a&b=2&a=1#frag"
    /\ call.out = "http://example.com/path?a=1&b=2"

\* the keys of a cache
Keys(cache) == {cache[i].key : i \in 1..Len(cache)}

\* the step is a call of add_icon
Adds == call'.fn = "add_icon" /\ call'.n = call.n + 1

\* the step is a call of get_icon
Reads == call'.fn = "get_icon" /\ call'.n = call.n + 1

\* the keys that were cached or are written by the step, and are not cached
\* after it
Evicted == (Keys(iconcache) \cup {call'.url}) \ Keys(iconcache')

\* the time key was written at, the write of the step included
WrittenAt(key) ==
    IF key = call'.url THEN clock' ELSE iconcache[CacheIndex(iconcache, key)].timestamp

\* C17: the cache never holds more than max_size entries; an add_icon that
\* takes it over max_size evicts exactly one entry, one that no entry left
\* was written before, and any other add_icon evicts none
C17_AtMostMaxSizeOldestEvicted ==
    [][ Adds =>
          /\ Len(iconcache') <= max_size
          /\ call'.url \in Keys(iconcache') \/ Evicted = {call'.url}
          /\ IF Cardinality(Keys(iconcache) \cup {call'.url}) > max_size
             THEN /\ Cardinality(Evicted) = 1
                  /\ Len(iconcache') = max_size
                  /\ \A e \in Evicted : \A i \in 1..Len(iconcache') :
                         WrittenAt(e) <= iconcache'[i].timestamp
             ELSE Evicted = {} ]_vars

\* C17 at work: the 501st key went into the cache of max_size keys written
\* at the times 1..max_size: max_size keys are left, and the first is not
\* among them
C17_Witness ==
    /\ call.fn = "add_icon"
    /\ call.n = 1
    /\ call.url = "new1"
    /\ Len(iconcache) = max_size
    /\ CacheIndex(iconcache, "new1") = max_size
    /\ CacheIndex(iconcache, "k1") = 0
    /\ \A i \in 2..max_size : CacheIndex(iconcache, Filled(max_size)[i].key) = i - 1

\* C18: get_icon leaves the cache as it is, keys and timestamps
C18_ReadsChangeNothing ==
    [][ Reads => iconcache' = iconcache ]_vars

\* C18 at work: the oldest key was read and found, and the add_icon after it
\* evicted it all the same
C18_Witness ==
    /\ call.fn = "add_icon"
    /\ call.n = 2
    /\ call.read = {"k1"}
    /\ call.url = "new1"
    /\ Len(iconcache) = max_size
    /\ CacheIndex(iconcache, "k1") = 0
    /\ CacheIndex(iconcache, "k2") = 1

\* C19 as stated: when two threads call add_icon at once, neither call fails,
\* and once both are over the cache holds no more than max_size entries and
\* the keys both have written, unless one of them is the one evicted
C19_AddIconSerialized ==
    /\ \A t \in 1..Len(threads) : threads[t].pc # "raised"
    /\ (\A t \in 1..Len(threads) : threads[t].pc = "returned") =>
           /\ Len(iconcache) <= max_size
           /\ \A t \in 1..Len(threads) : CacheIndex(iconcache, threads[t].url) # 0

\* the keys the entries of a list are deduplicated on
KeysOf(list) == {DedupKey(list[i]) : i \in 1..Len(list)}

\* C20: search_results changes only in a step of on_worker_results, and such
\* a step merges its batch against the list as it is at that step: every
\* entry stays, what is added comes from the batch and has a key no entry
\* has, and every key of the batch has an entry afterwards
C20_OnlyMergeWritesList ==
    [][ /\ search_results' # search_results => Delivers
        /\ Delivers =>
               /\ \A i \in 1..Len(search_results) :
                      \E j \in 1..Len(search_results') : search_results'[j] = search_results[i]
               /\ \A j \in 1..Len(search_results') :
                      \/ \E i \in 1..Len(search_results) : search_results[i] = search_results'[j]
                      \/ /\ \E n \in 1..Len(Head(queue).results) :
                                Head(queue).results[n] = search_results'[j]
                         /\ DedupKey(search_results'[j]) \notin KeysOf(search_results)
               /\ KeysOf(Head(queue).results) \subseteq KeysOf(search_results') ]_vars

\* C20 at work: the threads of two searches run at once, each has emitted
\* engine A's batch with X, and both batches are merged: X is in the list
\* once
C20_Witness ==
    /\ Len(workers) = 2
    /\ \A w \in 1..2 :
           /\ workers[w].pc = "run"
           /\ workers[w].visit.engine = "A"
           /\ Titles(workers[w].visit.batch) = <<"X">>
    /\ queue = <<>>
    /\ Titles(search_results) = <<"X">>

\* C21: under fair scheduling every run that was started ends, whatever its
\* engines answer: its worker reaches the end of run, its finished signal is
\* delivered, and the step that delivers it leaves the loading animation
\* stopped.
C21_RunTerminatesAndStopsLoading ==
    /\ \A w \in 1..MaxSearches :
           (Len(workers) >= w)
               ~> (Len(workers) >= w /\ workers[w].pc = "done" /\ w \notin registered)
    /\ [][(queue # <<>> /\ Head(queue).kind = "finished" /\ queue' = Tail(queue))
              => ~loading']_vars

\* a run in which one engine failed and the other gave no item has ended,
\* its finished signal is delivered and the animation is stopped
C21_Witness ==
    /\ Len(workers) >= 1
    /\ workers[1].pc = "done"
    /\ workers[1].requested = <<"A", "B">>
    /\ 1 \notin registered
    /\ queue = <<>>
    /\ search_results = <<>>
    /\ ~loading

\* the signals in the queue that worker w emitted from its loop
EmittedBy(w) == SelectSeq(queue, LAMBDA sig : sig.worker = w /\ sig.kind # "finished")

\* the place of the engine called name in the table engines
PlaceOf(engines, name) == CHOOSE i \in 1..Len(engines) : engines[i].name = name

Count(names, name) == Cardinality({i \in 1..Len(names) : names[i] = name})

\* C23: within one run no engine is sent a second request, an engine that is
\* disabled or has an empty API URL is sent none, and when the run is over
\* every enabled engine with an API URL was sent exactly one, also where the
\* request failed
C23_OneRequestPerEnabledEngine ==
    \A w \in 1..Len(workers) :
        \A i \in 1..Len(workers[w].engines) :
            LET e == workers[w].engines[i]
                n == Count(workers[w].requested, e.name)
            IN  /\ n <= 1
                /\ (~e.cfg.enabled \/ e.cfg.api_url = "") => n = 0
                /\ (workers[w].pc = "done" /\ e.cfg.enabled /\ e.cfg.api_url # "") => n = 1

\* C23 at work: the run is over; the request to A failed, its error waits in
\* the queue, and A and B were sent one request each, Off and NoUrl none
C23_Witness ==
    /\ Len(workers) = 1
    /\ workers[1].pc = "done"
    /\ Len(workers[1].engines) = 4
    /\ workers[1].requested = <<"A", "B">>
    /\ queue # <<>>
    /\ queue[1] = Signal("error", 1, "A", "request", <<>>)

\* the field names of a results path: its pieces between dots, the empty
\* ones left out
FieldNames(path) == SelectSeq(Split(path, "."), LAMBDA piece : piece # "")

\* doc resolved through the field names, left to right through objects only:
\* found is FALSE where a name is missing or the value to look it up in is no
\* object
RECURSIVE Resolved(_, _)
Resolved(doc, names) ==
    IF names = <<>> THEN [found |-> TRUE, value |-> doc]
    ELSE IF doc.t = "dict" /\ names[1] \in DOMAIN doc.v
    THEN Resolved(doc.v[names[1]], Tail(names))
    ELSE [found |-> FALSE, value |-> JNull]

\* the items a resolution stands for: those of a list, an object itself
ItemsOf(r) ==
    IF r.found /\ r.value.t = "list" THEN r.value.v
    ELSE IF r.found /\ r.value.t = "dict" THEN <<r.value>>
    ELSE <<>>

\* C24: an engine whose body is not JSON, or in whose body the configured
\* results path resolves to no item, yields no item and emits nothing:
\* neither a batch nor an error
C24_NoItemsNoEvent ==
    (/\ call.fn = "run"
     /\ \/ Bodies[call.body].t = "null"
        \/ /\ call.results_path # ""
           /\ ItemsOf(Resolved(Bodies[call.body], FieldNames(call.results_path))) = <<>>)
        => call.items = <<>> /\ call.signals = <<>>

\* C24 at work: a body that is not JSON, and a body in which data is a list
\* where the path goes on to hits, gave no item and no signal
C24_Witness ==
    /\ call.fn = "run"
    /\ call.results_path = ".data.hits"
    /\ call.body \in {1, 7}
    /\ call.items = <<>>
    /\ call.signals = <<>>

\* C30: with a results path that is not empty, the items extracted from a
\* JSON body are those its resolution through the path's field names stands
\* for
C30_ItemsAreThePathResolved ==
    (call.fn = "run" /\ call.results_path # "" /\ Bodies[call.body].t # "null")
        => call.items = ItemsOf(Resolved(Bodies[call.body], FieldNames(call.results_path)))

\* C30 at work: the list under data.hits gave its two items, and the object
\* under data.hits gave itself as the one item
C30_Witness ==
    /\ call.fn = "run"
    /\ call.results_path = "data.hits"
    /\ \/ call.body = 2 /\ call.items = <<Hit1, Hit2>>
       \/ call.body = 3 /\ call.items = <<Hit1>>

\* the lists the settings may hold
BlacklistsHeld == {<<"csdn.net">>} \cup {FromTable(rows) : rows \in BlacklistTables}

WhitelistsHeld == {<<"b.com">>} \cup {FromTable(rows) : rows \in WhitelistTables}

\* the results the run has produced so far: those accepted and those of the
\* batches still in the queue
Produced ==
    {search_results[i] : i \in 1..Len(search_results)} \cup
    UNION {{queue[k].results[i] : i \in 1..Len(queue[k].results)} : k \in 1..Len(queue)}

\* C25 as stated: the results one run has produced are all weighted and
\* whitelist-flagged against one and the same blacklist and whitelist
C25_OneRunOneSetOfLists ==
    \E bl \in BlacklistsHeld : \E wl \in WhitelistsHeld :
        \A r \in Produced :
            /\ r.weight = calculate_weight(r, bl, wl, authoritative_sites, Now)
            /\ r.is_whitelist = is_whitelist(r.url, wl)

\* C26: no step changes an entry of search_results: every entry is an entry
\* of the list after the step, whatever the step merges, sorts, pages or
\* changes in the lists
C26_EntriesNeverChange ==
    [][ /\ Len(search_results') >= Len(search_results)
        /\ \A i \in 1..Len(search_results) :
               \E j \in 1..Len(search_results') : search_results'[j] = search_results[i] ]_vars

\* C26 at work: an entry was weighed before its host was put on the
\* blacklist, a later batch was merged behind it, and the entry has the
\* weight it was created with
C26_Witness ==
    /\ blacklist = <<"a.com">>
    /\ Len(search_results) >= 2
    /\ \E i \in 1..Len(search_results) :
           /\ search_results[i].url = "http://a.com/?utm_source=z"
           /\ search_results[i].weight = 0
           /\ calculate_weight(search_results[i], blacklist, whitelist,
                               authoritative_sites, Now) = SENTINEL
    /\ \E i \in 1..Len(search_results) : search_results[i].url = "HTTP://B.com:80/2/#top"

\* the url of the call is scheme, the host a.com and path, and nothing else
PlainUrl(scheme, path) == call.fn = "canonicalize_url" /\ call.url = scheme \o "a.com" \o path

\* the canonical form of such a url has path for its path
PathIs(path) == call.first \in {"http://a.com" \o path, "https://a.com" \o path}

\* C27 as stated: one trailing slash is taken off the path: a path ending in
\* one slash loses it, a path ending in two keeps one, the root path stays
C27_OneTrailingSlashStripped ==
    \A scheme \in UrlSchemes :
        /\ PlainUrl(scheme, "/path/") => PathIs("/path")
        /\ PlainUrl(scheme, "/p//") => PathIs("/p/")
        /\ PlainUrl(scheme, "/") => PathIs("/")

\* C27: every trailing slash is taken off the decoded path unless the path
\* is exactly "/": a path ending in one slash or in two loses them all, the
\* root path stays, a path without a trailing slash is kept
C27_TrailingSlashesStripped ==
    \A scheme \in UrlSchemes :
        /\ PlainUrl(scheme, "/path/") => PathIs("/path")
        /\ PlainUrl(scheme, "/p//") => PathIs("/p")
        /\ PlainUrl(scheme, "/a%23b/") => PathIs("/a#b")
        /\ PlainUrl(scheme, "/") => PathIs("/")
        /\ PlainUrl(scheme, "") => PathIs("")
        /\ PlainUrl(scheme, "/a%3Fb") => PathIs("/a?b")

\* C27 at work: the url with the path /p// was canonicalized, and both
\* slashes are gone
C27_Witness ==
    /\ PlainUrl("http://", "/p//")
    /\ call.passes = 1
    /\ call.first = "http://a.com/p"

\* C28: two urls that differ only in the order of their query pairs, in
\* tracking pairs (key utm_..., fbclid, gclid) and in the fragment have the
\* same canonical form, whose query lists the other pairs sorted by key,
\* then value
C28_QueryOrderAndTrackingIgnored ==
    call.fn = "canonicalize_pair" =>
        /\ call.out = call.first
        /\ call.family = 1 => call.out = "http://a.com/p?a=0&a=1&b=2"
        /\ call.family = 2 => call.out = "https://b.com/path?b=&q=x+y"

\* C28 at work: a url with the pairs in another order, a tracking pair among
\* them and a fragment has the canonical form of the plain one
C28_Witness ==
    /\ call.fn = "canonicalize_pair"
    /\ call.other = "http://a.com/p?b=2&utm_medium=x&a=1&a=0#frag"
    /\ call.url \in {"http://a.com/p?a=0&a=1&b=2", "http://a.com/p?a=1&a=0&b=2",
                      "http://a.com/p?a=0&b=2&a=1", "http://a.com/p?a=1&b=2&a=0",
                      "http://a.com/p?b=2&a=0&a=1", "http://a.com/p?b=2&a=1&a=0"}
    /\ call.out = "http://a.com/p?a=0&a=1&b=2"

\* the origin of a url: its scheme and host
OriginOf(url) == Lower(urlparse(url).scheme) \o "://" \o Lower(urlparse(url).netloc)

\* C29 as stated: the icon cache holds one entry per origin: a result whose
\* url has the scheme and host of an earlier result whose favicon was stored
\* finds that entry, and no second entry is fetched and stored
C29_OneEntryPerOrigin ==
    \A i, j \in 1..Len(iconcache) :
        OriginOf(iconcache[i].key) = OriginOf(iconcache[j].key) => i = j

\* the field called name of doc is an array
HasArray(doc, name) == doc.t = "dict" /\ name \in DOMAIN doc.v /\ doc.v[name].t = "list"

\* C31: with no results path, the items of a JSON body are those of its
\* results field if that is an array, else those of its items field if that
\* is an array, else the object itself as the one item; a top-level array is
\* the items as it is, and a top-level scalar gives none
C31_DefaultShapesInOrder ==
    (call.fn = "run" /\ call.results_path = "" /\ Bodies[call.body].t # "null") =>
        LET doc == Bodies[call.body]
        IN  /\ HasArray(doc, "results") => call.items = doc.v["results"].v
            /\ (~HasArray(doc, "results") /\ HasArray(doc, "items")) =>
                   call.items = doc.v["items"].v
            /\ (doc.t = "dict" /\ ~HasArray(doc, "results") /\ ~HasArray(doc, "items")) =>
                   (Len(call.items) = 1 /\ call.items[1] = doc)
            /\ doc.t = "list" => call.items = doc.v
            /\ doc.t \notin {"dict", "list"} => call.items = <<>>

\* C31 at work: a body with both a results and an items array gave the
\* results, and one whose results field is no array gave the items
C31_Witness ==
    /\ call.fn = "run"
    /\ call.results_path = ""
    /\ \/ call.body = 17 /\ call.items = <<Hit1>>
       \/ call.body = 18 /\ call.items = <<Hit2, Hit1>>

\* the request of the call was built from the template api_url
Built(api_url) == call.fn = "request_url" /\ call.api_url = api_url

\* the query and the API key of the call as written into a url
EncodedQuery == quote_plus(call.query)

EncodedKey == quote_plus(call.api_key)

\* C32 as stated: of two different query placeholders in a template only
\* the one listed first is replaced, and likewise of two key placeholders
C32_OnlyFirstListedReplaced ==
    /\ Built("https://e.x/s?q={q}&k={keyword}") =>
           call.out = "https://e.x/s?q=" \o EncodedQuery \o "&k={keyword}"
    /\ Built("https://e.x/s?a={search}&b={query}") =>
           call.out = "https://e.x/s?a={search}&b=" \o EncodedQuery
    /\ Built("https://e.x/s?k={api_key}&t={key}") =>
           StartsWith(call.out, "https://e.x/s?k=" \o EncodedKey \o "&t={key}")

\* C32: every query placeholder in the template, at every place, is
\* replaced by the encoded query, and every key placeholder by the encoded
\* API key; no placeholder is left in the request url
C32_EveryPlaceholderReplaced ==
    /\ Built("https://e.x/s?q={query}") => call.out = "https://e.x/s?q=" \o EncodedQuery
    /\ Built("https://e.x/s?q={q}&k={keyword}") =>
           call.out = "https://e.x/s?q=" \o EncodedQuery \o "&k=" \o EncodedQuery
    /\ Built("https://e.x/s?a={search}&b={query}") =>
           call.out = "https://e.x/s?a=" \o EncodedQuery \o "&b=" \o EncodedQuery
    /\ Built("https://e.x/{q}/{q}") => call.out = "https://e.x/" \o EncodedQuery \o "/" \o EncodedQuery
    /\ Built("https://e.x/s?q={query}&key={apikey}") =>
           call.out = "https://e.x/s?q=" \o EncodedQuery \o "&key=" \o EncodedKey
    /\ Built("https://e.x/s?k={api_key}&t={key}") =>
           call.out = "https://e.x/s?k=" \o EncodedKey \o "&t=" \o EncodedKey \o "&q=" \o EncodedQuery
    /\ call.fn = "request_url" =>
           \A i \in 1..4, j \in 1..3 :
               /\ ~Contains(call.out, query_placeholders[i])
               /\ ~Contains(call.out, apikey_placeholders[j])

\* C32 at work: a template with {q} and {keyword} was built for the query
\* "a b", and both places hold a+b
C32_Witness ==
    /\ Built("https://e.x/s?q={q}&k={keyword}")
    /\ call.query = "a b"
    /\ call.out = "https://e.x/s?q=a+b&k=a+b"

\* the favicon url of a result, taken from its canonical url
FaviconOf(r) == OriginOf(r.norm_url) \o "/favicon.ico"

\* C33 as stated: an answered request of engine A, whose items all can be
\* read, emits a result for every item and no error, whatever becomes of the
\* favicon lookups: a result whose favicon is not to be had has no icon, and
\* the cache holds only icons that were answered with status 200
C33_FaviconLookupIsSilent ==
    /\ \A w \in 1..Len(workers) :
           (workers[w].visit.engine = "A" /\ ~workers[w].visit.failed) =>
               /\ Errors(workers[w].visit.signals) = <<>>
               /\ Len(workers[w].visit.batch) = Len(workers[w].visit.items)
               /\ \A n \in 1..Len(workers[w].visit.batch) :
                      FaviconReply(FaviconOf(workers[w].visit.batch[n])) # "200"
                          => workers[w].visit.batch[n].icon = None
    /\ \A i \in 1..Len(iconcache) : FaviconReply(iconcache[i].icon) = "200"

\* every result of the batch at the head of the queue has the canonical url
\* of an accepted result
OnlyDuplicates ==
    \A n \in 1..Len(Head(queue).results) :
        DedupKey(Head(queue).results[n]) \in KeysOf(search_results)

\* C34: a merge step keeps every accepted result, with all its fields, so
\* the list never gets shorter; and where the batch holds nothing but
\* duplicates of accepted results the list is left as it is, order included
C34_ListOnlyGrows ==
    [][ Delivers =>
            /\ Len(search_results') >= Len(search_results)
            /\ \A i \in 1..Len(search_results) :
                   Cardinality({j \in 1..Len(search_results') :
                                    search_results'[j] = search_results[i]}) = 1
            /\ OnlyDuplicates => search_results' = search_results ]_vars

\* C34 at work: both searches had engine A answer the result X, both batches
\* were delivered, and the list holds X once
C34_Witness ==
    /\ Len(workers) = 2
    /\ \A w \in 1..2 : /\ workers[w].visit.engine = "A"
                        /\ Titles(workers[w].visit.batch) = <<"X">>
    /\ queue = <<>>
    /\ Titles(search_results) = <<"X">>

\* the weight is the one calculate_weight gives a blacklisted host
IsSentinel(r) == r.weight = SENTINEL

\* C35: the weight of an accepted result is the sentinel -999 or lies between
\* -0.5 and 3.0, and no accepted result with the sentinel stands ahead of one
\* without it
C35_SentinelLast ==
    /\ \A i \in 1..Len(search_results) :
           IsSentinel(search_results[i]) \/ search_results[i].weight \in -5..30
    /\ \A i, j \in 1..Len(search_results) :
           (i < j /\ IsSentinel(search_results[i])) => IsSentinel(search_results[j])

\* C35 at work: the blacklisted C arrived from engine A between two
\* whitelisted results, a result of engine B was merged as well, and C is
\* the last of the list
C35_Witness ==
    /\ Len(search_results) >= 4
    /\ search_results[Len(search_results)].title = "C"
    /\ IsSentinel(search_results[Len(search_results)])
    /\ \E i \in 1..Len(search_results) - 1 :
           search_results[i].source = "B" /\ ~IsSentinel(search_results[i])

\* current_page is a page of the list
PageIsValid ==
    /\ current_page >= 0
    /\ Len(search_results) > 0 => current_page < total_pages(search_results)

\* C36: whatever was merged, searched, finished or paged, current_page is at
\* least 0 and, with a non-empty list, below the number of pages; and
\* prev_page on page 0 and next_page on the last page leave everything as it is
C36_PageIsValid ==
    /\ []PageIsValid
    /\ [][ /\ (prev_page /\ current_page = 0) => UNCHANGED vars
           /\ (next_page /\ current_page >= total_pages(search_results) - 1)
                  => UNCHANGED vars ]_vars

\* C36 at work: the third and last page of twenty-one results is shown, and
\* a run is still under way
C36_Witness ==
    /\ Len(search_results) = 21
    /\ current_page = 2
    /\ Len(shown) = 1
    /\ loading

\* run of worker w has taken its list of engines
Started(w) == workers[w].pc # "start"

\* what the visit of engine e by worker w leaves behind when the engine
\* answers resp: the kinds of the signals, the number of items and the
\* canonical urls of the batch
VisitOf(w, e, resp) ==
    LET out == RunEngine(w, e.name, e.cfg, resp, iconcache, blacklist, whitelist,
                         authoritative_sites, Now)
    IN  <<KindsOf(out.signals), Len(out.items), NormUrls(BatchOf(out.signals))>>

\* C37: once a run has taken its list of engines no step changes that list,
\* whatever becomes of the table; the engines the run has requested are the
\* first enabled engines of that list, in its order; and every visit leaves
\* what the configuration in that list makes of one of the engine's answers
C37_RunKeepsItsEngines ==
    /\ [][ \A w \in 1..Len(workers) :
               Started(w) => (FetchedNames(workers'[w].engines) = FetchedNames(workers[w].engines)
                              /\ workers'[w].engines = workers[w].engines) ]_vars
    /\ [](\A w \in 1..Len(workers) :
             /\ Len(workers[w].requested) <= Len(FetchedNames(workers[w].engines))
             /\ workers[w].requested =
                    SubSeq(FetchedNames(workers[w].engines), 1, Len(workers[w].requested)))
    /\ [][ \A w \in 1..Len(workers) : Visits(w) =>
               \E r \in 1..Len(RepliesTo(workers[w])) :
                   <<workers'[w].visit.signals, Len(workers'[w].visit.items),
                     NormUrls(workers'[w].visit.batch)>>
                       = VisitOf(w, workers[w].engines[workers'[w].idx - 1],
                                 RepliesTo(workers[w])[r]) ]_vars

\* C37 at work: engine A was deleted from the table and the results path of
\* B cleared after the run had begun; the run has requested A and then B,
\* and took B's hit from under the path its own list holds
C37_Witness ==
    /\ Len(workers) = 1
    /\ workers[1].pc = "run"
    /\ FetchedNames(search_engines) = <<"B">>
    /\ search_engines[1].cfg.results_path = ""
    /\ workers[1].requested = <<"A", "B">>
    /\ workers[1].visit.engine = "B"
    /\ Titles(workers[1].visit.batch) = <<"Y">>

\* the entry add_icon has just written
Written == [key |-> call'.url, icon |-> call'.icon, timestamp |-> clock']

\* C38: with a clock that does not go back, the key add_icon has written is
\* in the cache after the call, with the icon written; and where the key
\* was in the cache before, the call puts the new icon and timestamp in its
\* place and leaves every other entry where and as it was
C38_WrittenEntryStays ==
    [][ Adds =>
          /\ get_icon(iconcache', call'.url) = Some(call'.icon)
          /\ CacheIndex(iconcache, call'.url) # 0 =>
                 /\ Len(iconcache') = Len(iconcache)
                 /\ \A i \in 1..Len(iconcache) :
                        iconcache'[i] = IF iconcache[i].key = call'.url THEN Written
                                        ELSE iconcache[i] ]_vars

\* C38 at work: a new key was written into a full cache at the very reading
\* of the clock all its keys were written at, and the get_icon after it
\* found the icon: the first key went, the new one is the last
C38_Witness ==
    /\ call.fn = "get_icon"
    /\ call.n = 2
    /\ call.url = "new1"
    /\ call.out = Some("new")
    /\ clock = max_size
    /\ Len(iconcache) = max_size
    /\ iconcache[1].key = "k2"
    /\ iconcache[max_size].key = "new1"
    /\ iconcache[max_size].timestamp = iconcache[1].timestamp

====
